---------------------------- MODULE Spec2Model ----------------------------
(***************************************************************************)
(* Embedded dual multigraph of a two-colour planar subdivision             *)
(* (src/algorithm/embedded_dual.py): the arena of vertices, edges and      *)
(* half-edges, the rotation table, validate(), and the two refinement      *)
(* moves split_arc and vertex_split.                                       *)
(*                                                                         *)
(* Python lists are modelled as TLA+ sequences.  Ids are the 0-based list  *)
(* indices of the source; the record with id k sits at position k + 1.     *)
(* The centroid of a vertex is geometry only and is left out.              *)
(***************************************************************************)
EXTENDS Integers, Sequences, FiniteSets, TLC

VARIABLES
    vertices,   \* EmbeddedDualGraph.vertices  : list of DualVertex
    edges,      \* EmbeddedDualGraph.edges     : list of DualEdge
    halfedges,  \* EmbeddedDualGraph.halfedges : list of HalfEdge
    rotation,   \* EmbeddedDualGraph.rotation  : list of lists of half-edge ids
    call,       \* the last call made on the graph, its arguments and outcome
    pre,        \* the graph as it was when the last call was entered
    snap,       \* the dict to_json_dict returned, if it has been called
    imported,   \* what from_json_dict made of that dict, if it has been called
    build,      \* the locals of build_embedded_dual_from_raster while it runs
    driver      \* the locals of refine_embedded_dual.main while it runs

vars == <<vertices, edges, halfedges, rotation, call, pre, snap, imported, build,
          driver>>

\* Python None in an Optional[int] field (color, parent)
NoneVal == -1

\* Python None in the Optional[str] field side
NoSide == "None"

-----------------------------------------------------------------------------
(* Python list primitives.                                                 *)

\* items[k] for 0 <= k < len(items)
At(items, k) == items[k + 1]

\* x in items
Contains(items, x) == \E k \in 1..Len(items) : items[k] = x

\* items.index(x): the first 0-based position of x; -1 stands for ValueError
Index(items, x) ==
    IF Contains(items, x)
    THEN (CHOOSE k \in 1..Len(items) :
              items[k] = x /\ \A m \in 1..(k - 1) : items[m] # x) - 1
    ELSE -1

\* items.insert(k, x) for 0 <= k <= len(items)
Insert(items, k, x) ==
    SubSeq(items, 1, k) \o <<x>> \o SubSeq(items, k + 1, Len(items))

\* items with items[k] replaced by x
SetAt(items, k, x) == [items EXCEPT ![k + 1] = x]

\* the set of elements of a list
Range(items) == {items[k] : k \in 1..Len(items)}

\* the last element of a non-empty list
Last(items) == items[Len(items)]

\* items without its last element
Front(items) == SubSeq(items, 1, Len(items) - 1)

-----------------------------------------------------------------------------
(* Records of the data model.                                              *)

DualVertex(id, kind, color, parent, side) ==
    [id |-> id, kind |-> kind, color |-> color, parent |-> parent, side |-> side]

HalfEdge(id, edge, origin) == [id |-> id, edge |-> edge, origin |-> origin]

DualEdge(id, u, v, kind, he_u, he_v) ==
    [id |-> id, u |-> u, v |-> v, kind |-> kind, he_u |-> he_u, he_v |-> he_v]

\* EmbeddedDualGraph.__init__: the four lists are stored as given, unchecked
EmbeddedDualGraph(vs, es, hs, rot) ==
    [vertices |-> vs, edges |-> es, halfedges |-> hs, rotation |-> rot]

\* _cycle_slice without the wrapped part items[:j]
cycle_slice_NoWrap(items, i, j) ==
    IF Len(items) = 0 THEN <<>>
    ELSE LET n  == Len(items)
             i2 == i % n
             j2 == j % n
         IN  IF i2 < j2
             THEN SubSeq(items, i2 + 1, j2)
             ELSE SubSeq(items, i2 + 1, n)

\* _cycle_slice: return items[i:j] on a cyclic sequence (i inclusive,
\* j exclusive)
cycle_slice(items, i, j) ==
    IF Len(items) = 0 THEN <<>>
    ELSE LET n  == Len(items)
             i2 == i % n
             j2 == j % n
         IN  IF i2 < j2
             THEN SubSeq(items, i2 + 1, j2)
             ELSE SubSeq(items, i2 + 1, n) \o SubSeq(items, 1, j2)

-----------------------------------------------------------------------------
(* validate()                                                              *)

\* the loop over rotation (lines 94-99)
RotationOwned(g) ==
    \A k \in 1..Len(g.rotation) :
        \A m \in 1..Len(g.rotation[k]) :
            LET he == g.rotation[k][m]
            IN  /\ he >= 0
                /\ he < Len(g.halfedges)
                /\ At(g.halfedges, he).origin = k - 1

\* the loop over edges (lines 101-118)
EdgesConsistent(g) ==
    \A k \in 1..Len(g.edges) :
        LET e == g.edges[k]
        IN  /\ e.id >= 0
            /\ e.id < Len(g.edges)
            /\ e.he_u >= 0
            /\ e.he_u < Len(g.halfedges)
            /\ e.he_v >= 0
            /\ e.he_v < Len(g.halfedges)
            /\ At(g.halfedges, e.he_u).edge = e.id
            /\ At(g.halfedges, e.he_v).edge = e.id
            /\ At(g.halfedges, e.he_u).origin = e.u
            /\ At(g.halfedges, e.he_v).origin = e.v
            /\ e.u >= 0
            /\ e.u < Len(g.rotation)
            /\ e.v >= 0
            /\ e.v < Len(g.rotation)
            /\ Contains(At(g.rotation, e.u), e.he_u)
            /\ Contains(At(g.rotation, e.v), e.he_v)

\* TRUE when validate() returns, FALSE when it raises
validate(g) ==
    /\ Len(g.rotation) = Len(g.vertices)
    /\ RotationOwned(g)
    /\ EdgesConsistent(g)

-----------------------------------------------------------------------------
(* split_arc                                                               *)

Result(g, outcome, ret) == [g |-> g, outcome |-> outcome, ret |-> ret]

\* AppendParallel with the kind of the new edge fixed instead of copied
AppendParallel_BoundaryKind(g, e) ==
    LET new_eid == Len(g.edges)
        he_u    == Len(g.halfedges)
        he_v    == he_u + 1
    IN  [g EXCEPT
            !.halfedges = @ \o << HalfEdge(he_u, new_eid, e.u),
                                  HalfEdge(he_v, new_eid, e.v) >>,
            !.edges     = Append(@, DualEdge(new_eid, e.u, e.v, "boundary", he_u, he_v))]

\* AppendParallel with both ends of the new edge at e.u
AppendParallel_Loop(g, e) ==
    LET new_eid == Len(g.edges)
        he_u    == Len(g.halfedges)
        he_v    == he_u + 1
    IN  [g EXCEPT
            !.halfedges = @ \o << HalfEdge(he_u, new_eid, e.u),
                                  HalfEdge(he_v, new_eid, e.u) >>,
            !.edges     = Append(@, DualEdge(new_eid, e.u, e.u, e.kind, he_u, he_v))]

\* lines 181-187: the new parallel edge and its two half-edges are appended
AppendParallel(g, e) ==
    LET new_eid == Len(g.edges)
        he_u    == Len(g.halfedges)
        he_v    == he_u + 1
    IN  [g EXCEPT
            !.halfedges = @ \o << HalfEdge(he_u, new_eid, e.u),
                                  HalfEdge(he_v, new_eid, e.v) >>,
            !.edges     = Append(@, DualEdge(new_eid, e.u, e.v, e.kind, he_u, he_v))]

\* InsertNext storing the new id over the entry found instead of inserting
InsertNext_Overwrite(rot, w, idx, he) ==
    SetAt(rot, w, SetAt(At(rot, w), idx, he))

\* lines 199-200: rotation[w].insert(idx + 1, he)
InsertNext(rot, w, idx, he) ==
    SetAt(rot, w, Insert(At(rot, w), idx + 1, he))

split_arc(g, edge_id) ==
    IF edge_id < 0 \/ edge_id >= Len(g.edges)
    THEN Result(g, "ValueError", <<>>)
    ELSE
      LET e       == At(g.edges, edge_id)
          u       == e.u
          v       == e.v
          new_eid == Len(g.edges)
          he_u    == Len(g.halfedges)
          he_v    == he_u + 1
          g1      == AppendParallel(g, e)
          iu      == Index(At(g1.rotation, u), e.he_u)
          iv      == Index(At(g1.rotation, v), e.he_v)
      IN  IF iu = -1 \/ iv = -1
          THEN Result(g1, "ValueError", <<>>)
          ELSE LET r1 == InsertNext(g1.rotation, u, iu, he_u)
                   r2 == InsertNext(r1, v, iv, he_v)
               IN  Result([g1 EXCEPT !.rotation = r2], "ok", <<new_eid>>)

-----------------------------------------------------------------------------
(* vertex_split                                                            *)

\* ReattachOne without line 243: the moved half-edge keeps its old origin
ReattachOne_KeepsOrigin(g, he, new_vid) ==
    LET ei == At(g.halfedges, he).edge
        e  == At(g.edges, ei)
    IN  IF e.he_u = he
        THEN [g |-> [g EXCEPT !.edges = SetAt(@, ei, [e EXCEPT !.u = new_vid])],
              ok |-> TRUE]
        ELSE IF e.he_v = he
        THEN [g |-> [g EXCEPT !.edges = SetAt(@, ei, [e EXCEPT !.v = new_vid])],
              ok |-> TRUE]
        ELSE [g |-> g, ok |-> FALSE]

\* lines 243-250, one pass of the loop body for half-edge he; ok is FALSE
\* when line 250 raises (the origin has been overwritten by then)
ReattachOne(g, he, new_vid) ==
    LET hs == SetAt(g.halfedges, he, [At(g.halfedges, he) EXCEPT !.origin = new_vid])
        ei == At(hs, he).edge
        e  == At(g.edges, ei)
    IN  IF e.he_u = he
        THEN [g |-> [g EXCEPT !.halfedges = hs,
                              !.edges = SetAt(@, ei, [e EXCEPT !.u = new_vid])],
              ok |-> TRUE]
        ELSE IF e.he_v = he
        THEN [g |-> [g EXCEPT !.halfedges = hs,
                              !.edges = SetAt(@, ei, [e EXCEPT !.v = new_vid])],
              ok |-> TRUE]
        ELSE [g |-> [g EXCEPT !.halfedges = hs], ok |-> FALSE]

\* lines 242-250: for he in moved, stopping at the first raise
RECURSIVE Reattach(_, _, _)
Reattach(g, moved, new_vid) ==
    IF moved = <<>> THEN [g |-> g, ok |-> TRUE]
    ELSE LET r == ReattachOne(g, Head(moved), new_vid)
         IN  IF r.ok THEN Reattach(r.g, Tail(moved), new_vid) ELSE r

\* AppendSplitVertex storing the new record over the split vertex
AppendSplitVertex_Replace(g, v) ==
    LET new_vid == Len(g.vertices)
    IN  [g EXCEPT
            !.vertices = SetAt(@, v.id, DualVertex(new_vid, "face", v.color,
                                   IF v.parent # NoneVal THEN v.parent ELSE v.id,
                                   NoSide)),
            !.rotation = Append(@, <<>>)]

\* AppendSplitVertex naming the new vertex as its own parent
AppendSplitVertex_OwnParent(g, v) ==
    LET new_vid == Len(g.vertices)
    IN  [g EXCEPT
            !.vertices = Append(@, DualVertex(new_vid, "face", v.color, new_vid, NoSide)),
            !.rotation = Append(@, <<>>)]

\* lines 229-239: the new face vertex and its empty rotation are appended
AppendSplitVertex(g, v) ==
    LET new_vid == Len(g.vertices)
    IN  [g EXCEPT
            !.vertices = Append(@, DualVertex(new_vid, "face", v.color,
                                   IF v.parent # NoneVal THEN v.parent ELSE v.id,
                                   NoSide)),
            !.rotation = Append(@, <<>>)]

\* AddInternalEdge putting the new half-edges first in the two rotations
AddInternalEdge_Prepend(g, vertex_id, new_vid, remaining, moved) ==
    LET new_eid == Len(g.edges)
        he_v    == Len(g.halfedges)
        he_vp   == he_v + 1
    IN  [g EXCEPT
            !.halfedges = @ \o << HalfEdge(he_v, new_eid, vertex_id),
                                  HalfEdge(he_vp, new_eid, new_vid) >>,
            !.edges     = Append(@, DualEdge(new_eid, vertex_id, new_vid,
                                             "internal", he_v, he_vp)),
            !.rotation  = SetAt(SetAt(@, vertex_id, <<he_v>> \o remaining),
                                new_vid, <<he_vp>> \o moved)]

\* AddInternalEdge appending one half-edge that serves both ends of the edge
AddInternalEdge_SharedHalfEdge(g, vertex_id, new_vid, remaining, moved) ==
    LET new_eid == Len(g.edges)
        he_v    == Len(g.halfedges)
    IN  [g EXCEPT
            !.halfedges = Append(@, HalfEdge(he_v, new_eid, vertex_id)),
            !.edges     = Append(@, DualEdge(new_eid, vertex_id, new_vid,
                                             "internal", he_v, he_v)),
            !.rotation  = SetAt(SetAt(@, vertex_id, Append(remaining, he_v)),
                                new_vid, Append(moved, he_v))]

\* lines 252-261: the internal edge (v, v') and the two new rotations
AddInternalEdge(g, vertex_id, new_vid, remaining, moved) ==
    LET new_eid == Len(g.edges)
        he_v    == Len(g.halfedges)
        he_vp   == he_v + 1
    IN  [g EXCEPT
            !.halfedges = @ \o << HalfEdge(he_v, new_eid, vertex_id),
                                  HalfEdge(he_vp, new_eid, new_vid) >>,
            !.edges     = Append(@, DualEdge(new_eid, vertex_id, new_vid,
                                             "internal", he_v, he_vp)),
            !.rotation  = SetAt(SetAt(@, vertex_id, Append(remaining, he_v)),
                                new_vid, Append(moved, he_vp))]

\* IndicesInRange accepting an index equal to the degree
IndicesInRange_OffByOne(rot, i, j) ==
    0 <= i /\ i <= Len(rot) /\ 0 <= j /\ j <= Len(rot)

\* line 219: 0 <= i < len(rot) and 0 <= j < len(rot)
IndicesInRange(rot, i, j) ==
    0 <= i /\ i < Len(rot) /\ 0 <= j /\ j < Len(rot)

vertex_split(g, vertex_id, i, j) ==
    IF vertex_id < 0 \/ vertex_id >= Len(g.vertices)
    THEN Result(g, "ValueError", <<>>)
    ELSE
      LET v   == At(g.vertices, vertex_id)
          rot == At(g.rotation, vertex_id)
      IN  IF v.kind # "face" THEN Result(g, "ValueError", <<>>)
          ELSE IF Len(rot) < 2 THEN Result(g, "ValueError", <<>>)
          ELSE IF ~IndicesInRange(rot, i, j)
          THEN Result(g, "ValueError", <<>>)
          ELSE IF i = j THEN Result(g, "ValueError", <<>>)
          ELSE
            LET moved     == cycle_slice(rot, i, j)
                remaining == cycle_slice(rot, j, i)
            IN  IF moved = <<>> \/ remaining = <<>>
                THEN Result(g, "ValueError", <<>>)
                ELSE
                  LET new_vid == Len(g.vertices)
                      new_eid == Len(g.edges)
                      g1      == AppendSplitVertex(g, v)
                      r       == Reattach(g1, moved, new_vid)
                  IN  IF ~r.ok
                      THEN Result(r.g, "RuntimeError", <<>>)
                      ELSE Result(AddInternalEdge(r.g, vertex_id, new_vid,
                                                  remaining, moved),
                                  "ok", <<new_vid, new_eid>>)

-----------------------------------------------------------------------------
(* The graphs the calls start from.  The constructor stores whatever lists *)
(* it is given, so a start graph is a well-formed arena (built edge by     *)
(* edge the way add_dual_edge appends records, every half-edge once in the *)
(* rotation of its origin) or such an arena with one irregularity that the *)
(* constructor lets through: an entry missing from a rotation, an entry    *)
(* repeated in a rotation, a half-edge no edge refers to, or a loop edge   *)
(* whose he_v names the same half-edge as its he_u.                        *)

\* the largest number of edges a graph is grown to
MaxEdges == 3

\* vertex counts and edge counts of the start graphs
StartVertexCounts == {1, 2}
StartEdgeCounts == {1, 2}

EdgeKinds == {"boundary", "internal"}

\* all orders of the elements of a finite set
Perms(S) ==
    {p \in [1..Cardinality(S) -> S] :
        \A a, b \in 1..Cardinality(S) : a # b => p[a] # p[b]}

\* all lists of n endpoint pairs over vertex ids 0..nV-1
RECURSIVE EndpointLists(_, _)
EndpointLists(nV, n) ==
    IF n = 0 THEN {<<>>}
    ELSE {Append(l, <<u, v>>) :
            l \in EndpointLists(nV, n - 1), u \in 0..(nV - 1), v \in 0..(nV - 1)}

\* add_dual_edge (lines 362-369) applied to each endpoint pair in turn
RECURSIVE add_dual_edges(_, _, _)
add_dual_edges(g, ends, kind) ==
    IF ends = <<>> THEN g
    ELSE LET eid  == Len(g.edges)
             he_u == Len(g.halfedges)
             he_v == he_u + 1
             u    == Head(ends)[1]
             v    == Head(ends)[2]
         IN  add_dual_edges(
                 [g EXCEPT
                     !.halfedges = @ \o << HalfEdge(he_u, eid, u),
                                           HalfEdge(he_v, eid, v) >>,
                     !.edges     = Append(@, DualEdge(eid, u, v, kind, he_u, he_v))],
                 Tail(ends), kind)

\* the first nF vertices are faces (lines 323-325), the rest green ports
\* (line 413)
StartVertices(nV, nF) ==
    [k \in 1..nV |->
        IF k <= nF
        THEN DualVertex(k - 1, "face", (k - 1) % 2, k - 1, NoSide)
        ELSE DualVertex(k - 1, "green", NoneVal, NoneVal, "top")]

HalfEdgesAt(g, w) ==
    {h \in 0..(Len(g.halfedges) - 1) : At(g.halfedges, h).origin = w}

\* every way to order, vertex by vertex, the half-edges leaving each vertex
RECURSIVE Rotations(_, _)
Rotations(g, nV) ==
    IF nV = 0 THEN {<<>>}
    ELSE {Append(r, p) : r \in Rotations(g, nV - 1), p \in Perms(HalfEdgesAt(g, nV - 1))}

\* the well-formed arenas on nV vertices of which the first nF are faces
WellFormedOn(nV, nF) ==
    UNION {
        LET g0 == add_dual_edges(
                      EmbeddedDualGraph(StartVertices(nV, nF), <<>>, <<>>,
                                        [k \in 1..nV |-> <<>>]),
                      ends, kind)
        IN  {[g0 EXCEPT !.rotation = r] : r \in Rotations(g0, nV)} :
        ends \in UNION {EndpointLists(nV, n) : n \in StartEdgeCounts},
        kind \in EdgeKinds }

WellFormedGraphs ==
    UNION { UNION { WellFormedOn(nV, nF) : nF \in (nV - 1)..nV } :
            nV \in StartVertexCounts }

\* items without its entry at 0-based position k
Without(items, k) == SubSeq(items, 1, k) \o SubSeq(items, k + 2, Len(items))

\* one entry of one rotation list is missing
MissingEntry(g) ==
    {[g EXCEPT !.rotation = SetAt(@, w, Without(At(@, w), k))] :
        w \in {w \in 0..(Len(g.rotation) - 1) : At(g.rotation, w) # <<>>},
        k \in {0}} \cup
    {[g EXCEPT !.rotation = SetAt(@, w, Without(At(@, w), Len(At(@, w)) - 1))] :
        w \in {w \in 0..(Len(g.rotation) - 1) : Len(At(g.rotation, w)) > 1}}

\* the first entry of one rotation list occurs a second time, at its end
RepeatedEntry(g) ==
    {[g EXCEPT !.rotation = SetAt(@, w, Append(At(@, w), At(At(@, w), 0)))] :
        w \in {w \in 0..(Len(g.rotation) - 1) : At(g.rotation, w) # <<>>}}

\* a third half-edge claims edge 0 without being its he_u or he_v
UnreferencedHalfEdge(g) ==
    {[g EXCEPT !.halfedges = Append(@, HalfEdge(Len(@), 0, w)),
               !.rotation  = SetAt(@, w, Append(At(@, w), Len(g.halfedges)))] :
        w \in 0..(Len(g.vertices) - 1)}

\* a loop edge names one half-edge as both he_u and he_v
SharedHalfEdge(g) ==
    {[g EXCEPT !.edges = SetAt(@, k, [At(@, k) EXCEPT !.he_v = At(g.edges, k).he_u])] :
        k \in {k \in 0..(Len(g.edges) - 1) : At(g.edges, k).u = At(g.edges, k).v}}

\* the start graphs with each irregularity
RepeatedEntryGraphs == UNION {RepeatedEntry(g) : g \in WellFormedGraphs}
UnreferencedHalfEdgeGraphs == UNION {UnreferencedHalfEdge(g) : g \in WellFormedGraphs}
MissingEntryGraphs == UNION {MissingEntry(g) : g \in WellFormedGraphs}
SharedHalfEdgeGraphs == UNION {SharedHalfEdge(g) : g \in WellFormedGraphs}

StartGraphs ==
    WellFormedGraphs
        \cup RepeatedEntryGraphs \cup UnreferencedHalfEdgeGraphs
        \cup MissingEntryGraphs \cup SharedHalfEdgeGraphs

-----------------------------------------------------------------------------
(* State machine: construct, then a run of calls.  A call that raises ends *)
(* the run, as in refine_embedded_dual.main, which catches nothing.        *)

Graph == EmbeddedDualGraph(vertices, edges, halfedges, rotation)

\* no export, no import and no raster construction has taken place
NoSnapshot == [exported |-> FALSE, vertices |-> <<>>, edges |-> <<>>, halfedges |-> <<>>]
NoImport == [outcome |-> "none", g |-> EmbeddedDualGraph(<<>>, <<>>, <<>>, <<>>)]
NoBuild == [pc |-> "none"]
NoDriver == [pc |-> "none"]

Call(op, args, outcome, ret) ==
    [op |-> op, args |-> args, outcome |-> outcome, ret |-> ret]

\* the constructor has stored the lists of g
Constructed(g) ==
    /\ vertices = g.vertices
    /\ edges = g.edges
    /\ halfedges = g.halfedges
    /\ rotation = g.rotation
    /\ call = Call("construct", <<>>, "ok", <<>>)
    /\ pre = g
    /\ snap = NoSnapshot
    /\ imported = NoImport
    /\ build = NoBuild
    /\ driver = NoDriver

Init ==
    \/ \E g \in WellFormedGraphs : Constructed(g)
    \/ \E g \in RepeatedEntryGraphs : Constructed(g)
    \/ \E g \in UnreferencedHalfEdgeGraphs : Constructed(g)
    \/ \E g \in MissingEntryGraphs : Constructed(g)
    \/ \E g \in SharedHalfEdgeGraphs : Constructed(g)

\* the graph after the call and the record of the call
Commit(op, args, r) ==
    /\ vertices' = r.g.vertices
    /\ edges' = r.g.edges
    /\ halfedges' = r.g.halfedges
    /\ rotation' = r.g.rotation
    /\ call' = Call(op, args, r.outcome, r.ret)
    /\ pre' = Graph
    /\ UNCHANGED <<snap, imported, build, driver>>

Running == call.outcome = "ok" /\ Len(edges) < MaxEdges

\* argument values tried for an index into a list of length n: every legal
\* one and the nearest illegal one on each side
Around(n) == (-1)..n

SplitArc ==
    /\ Running
    /\ \E edge_id \in Around(Len(edges)) :
           Commit("split_arc", <<edge_id>>, split_arc(Graph, edge_id))

VertexSplit ==
    /\ Running
    /\ \E vertex_id \in Around(Len(vertices)) :
         LET deg == IF vertex_id >= 0 /\ vertex_id < Len(rotation)
                    THEN Len(At(rotation, vertex_id)) ELSE 0
         IN  \E i \in Around(deg), j \in Around(deg) :
                 Commit("vertex_split", <<vertex_id, i, j>>,
                        vertex_split(Graph, vertex_id, i, j))

Next == SplitArc \/ VertexSplit

Spec == Init /\ [][Next]_vars

-----------------------------------------------------------------------------
(* Snapshots: to_json_dict and from_json_dict.                             *)

\* asdict_vertex with the parent left out of the dict
asdict_vertex_NoParent(v) ==
    [id |-> v.id, kind |-> v.kind, color |-> v.color, parent |-> NoneVal,
     side |-> v.side]

\* dataclasses.asdict on the three record types: a dict with the same keys
asdict_vertex(v) ==
    [id |-> v.id, kind |-> v.kind, color |-> v.color, parent |-> v.parent,
     side |-> v.side]
asdict_edge(e) ==
    [id |-> e.id, u |-> e.u, v |-> e.v, kind |-> e.kind, he_u |-> e.he_u,
     he_v |-> e.he_v]
asdict_halfedge(h) == [id |-> h.id, edge |-> h.edge, origin |-> h.origin]

\* to_json_dict (lines 120-126): three fresh lists of dicts; the value
\* under "rotation" is the graph's own rotation list, not a copy, so it is
\* not stored here but read from the graph whenever the dict is read
to_json_dict(g) ==
    [exported  |-> TRUE,
     vertices  |-> [k \in 1..Len(g.vertices) |-> asdict_vertex(g.vertices[k])],
     edges     |-> [k \in 1..Len(g.edges) |-> asdict_edge(g.edges[k])],
     halfedges |-> [k \in 1..Len(g.halfedges) |-> asdict_halfedge(g.halfedges[k])]]

\* the four collections a reader of the dict finds in it
SnapshotData ==
    [vertices |-> snap.vertices, edges |-> snap.edges,
     halfedges |-> snap.halfedges, rotation |-> rotation]

\* int(x) at line 165; the ids of the model are integers already
int(x) == x

\* from_json_dict that returns the graph without calling validate()
from_json_dict_Unchecked(data) ==
    [outcome |-> "ok",
     g |-> EmbeddedDualGraph(data.vertices, data.edges, data.halfedges,
                             data.rotation)]

\* from_json_dict (lines 128-169): rebuild the records from the dicts,
\* copy the rotation lists, construct, validate
from_json_dict(data) ==
    LET vs  == [k \in 1..Len(data.vertices) |->
                   LET v == data.vertices[k]
                   IN  DualVertex(v.id, v.kind, v.color, v.parent, v.side)]
        es  == [k \in 1..Len(data.edges) |->
                   LET e == data.edges[k]
                   IN  DualEdge(e.id, e.u, e.v, e.kind, e.he_u, e.he_v)]
        hs  == [k \in 1..Len(data.halfedges) |->
                   LET h == data.halfedges[k]
                   IN  HalfEdge(h.id, h.edge, h.origin)]
        rot == [k \in 1..Len(data.rotation) |->
                   [m \in 1..Len(data.rotation[k]) |-> int(data.rotation[k][m])]]
        g   == EmbeddedDualGraph(vs, es, hs, rot)
    IN  IF validate(g)
        THEN [outcome |-> "ok", g |-> g]
        ELSE [outcome |-> "ValueError", g |-> NoImport.g]

\* arenas that break one of the first three rules of validate(): the
\* rotation table one list short or one list long, the origin of half-edge
\* 0 moved to the next vertex id, the edge field of half-edge 0 moved to the
\* next edge id, he_u of edge 0 naming a half-edge that does not exist
BrokenArenas(g) ==
    { [g EXCEPT !.rotation = SubSeq(@, 1, Len(@) - 1)],
      [g EXCEPT !.rotation = Append(@, <<>>)],
      [g EXCEPT !.halfedges = SetAt(@, 0, [At(@, 0) EXCEPT !.origin = @ + 1])],
      [g EXCEPT !.halfedges = SetAt(@, 0, [At(@, 0) EXCEPT !.edge = @ + 1])],
      [g EXCEPT !.edges = SetAt(@, 0, [At(@, 0) EXCEPT !.he_u = Len(g.halfedges)])] }

BrokenGraphs == UNION {BrokenArenas(g) : g \in WellFormedGraphs}

\* arenas in which two records have exchanged their ids: edges 0 and 1 (the
\* edge fields of their half-edges exchanged with them), vertices 0 and 1,
\* half-edges 0 and 1
MisnumberedArenas(g) ==
    { [g EXCEPT !.edges = SetAt(SetAt(@, 0, [At(@, 0) EXCEPT !.id = 1]),
                                1, [At(g.edges, 1) EXCEPT !.id = 0]),
                !.halfedges = [k \in 1..Len(g.halfedges) |->
                                  IF g.halfedges[k].edge \in {0, 1}
                                  THEN HalfEdge(g.halfedges[k].id,
                                                1 - g.halfedges[k].edge,
                                                g.halfedges[k].origin)
                                  ELSE g.halfedges[k]]],
      [g EXCEPT !.vertices = SetAt(SetAt(@, 0, [At(@, 0) EXCEPT !.id = 1]),
                                   1, [At(g.vertices, 1) EXCEPT !.id = 0])],
      [g EXCEPT !.halfedges = SetAt(SetAt(@, 0, [At(@, 0) EXCEPT !.id = 1]),
                                    1, [At(g.halfedges, 1) EXCEPT !.id = 0])] }

MisnumberedGraphs ==
    UNION {MisnumberedArenas(g) :
              g \in {g \in WellFormedGraphs : Len(g.edges) >= 2 /\ Len(g.vertices) >= 2}}

\* a graph is constructed, exported, and the export is imported
InitSnapshot ==
    \/ \E g \in StartGraphs : Constructed(g)
    \/ \E g \in BrokenGraphs : Constructed(g)
    \/ \E g \in MisnumberedGraphs : Constructed(g)

ExportSnapshot ==
    /\ ~snap.exported
    /\ snap' = to_json_dict(Graph)
    /\ UNCHANGED <<vertices, edges, halfedges, rotation, call, pre, imported, build, driver>>

ImportSnapshot ==
    /\ snap.exported
    /\ imported.outcome = "none"
    /\ imported' = from_json_dict(SnapshotData)
    /\ UNCHANGED <<vertices, edges, halfedges, rotation, call, pre, snap, build, driver>>

NextSnapshot == ExportSnapshot \/ ImportSnapshot

SpecSnapshot == InitSnapshot /\ [][NextSnapshot]_vars

\* a graph is constructed and exported at some point of a run of calls; the
\* exported dict is kept while the calls go on
InitShared == \E g \in WellFormedGraphs : Constructed(g)

NextShared == ExportSnapshot \/ SplitArc \/ VertexSplit

SpecShared == InitShared /\ [][NextShared]_vars

-----------------------------------------------------------------------------
(* refine_embedded_dual.main: load a graph, apply the ops of the command   *)
(* line one by one, validate, write the refined graph and the log.  An     *)
(* --op string is held as the list of its parts between colons.            *)

\* _parse_ops, lines 38-48, for one string: the op and its integers, or
\* ok = FALSE where a ValueError is raised
parse_op(parts) ==
    IF parts[1] = "split_arc"
    THEN IF Len(parts) # 2 THEN [ok |-> FALSE, op |-> "", ints |-> <<>>]
         ELSE [ok |-> TRUE, op |-> "split_arc", ints |-> <<int(parts[2])>>]
    ELSE IF parts[1] = "vertex_split"
    THEN IF Len(parts) # 4 THEN [ok |-> FALSE, op |-> "", ints |-> <<>>]
         ELSE [ok |-> TRUE, op |-> "vertex_split",
               ints |-> <<int(parts[2]), int(parts[3]), int(parts[4])>>]
    ELSE [ok |-> FALSE, op |-> "", ints |-> <<>>]

\* _parse_ops, lines 35-49
parse_ops(op_strs) ==
    IF \E n \in 1..Len(op_strs) : ~parse_op(op_strs[n]).ok
    THEN [ok |-> FALSE, ops |-> <<>>]
    ELSE [ok |-> TRUE,
          ops |-> [n \in 1..Len(op_strs) |->
                      [op |-> parse_op(op_strs[n]).op,
                       ints |-> parse_op(op_strs[n]).ints]]]

\* the log records of lines 75 and 79
SplitArcRecord(eid, new_eid) ==
    [op |-> "split_arc", edge |-> eid, new_edge |-> new_eid]

VertexSplitRecord(vid, i, j, new_vid, new_eid) ==
    [op |-> "vertex_split", vertex |-> vid, i |-> i, j |-> j,
     new_vertex |-> new_vid, new_edge |-> new_eid]

\* the op taken in the pass of the loop that comes last, not next
NextOp_Reversed(d) == d.ops[Len(d.ops) - d.k]

\* line 71: the op of the next pass of the loop
NextOp(d) == d.ops[d.k + 1]

\* lines 72-79, one pass of the loop: the call, and the record for the log
ApplyOp(g, o) ==
    IF o.op = "split_arc"
    THEN LET r == split_arc(g, o.ints[1])
         IN  [r |-> r,
              rec |-> IF r.outcome = "ok"
                      THEN SplitArcRecord(o.ints[1], r.ret[1])
                      ELSE SplitArcRecord(o.ints[1], NoneVal)]
    ELSE LET r == vertex_split(g, o.ints[1], o.ints[2], o.ints[3])
         IN  [r |-> r,
              rec |-> IF r.outcome = "ok"
                      THEN VertexSplitRecord(o.ints[1], o.ints[2], o.ints[3],
                                             r.ret[1], r.ret[2])
                      ELSE VertexSplitRecord(o.ints[1], o.ints[2], o.ints[3],
                                             NoneVal, NoneVal)]

\* the "ops" entry of the wrapper: absent, a list, or something else
NoOps == [kind |-> "absent", list |-> <<>>]
OpsList(l) == [kind |-> "list", list |-> l]
OtherOps == [kind |-> "other", list |-> <<>>]

\* lines 88-93: the "ops" entry of the output
out_ops(wrapper_ops, applied) ==
    IF applied = <<>> THEN wrapper_ops
    ELSE IF wrapper_ops.kind = "list" THEN OpsList(wrapper_ops.list \o applied)
    ELSE OpsList(applied)

\* the dict a graph is stored as in the input file
GraphDict(g) ==
    [vertices  |-> to_json_dict(g).vertices,
     edges     |-> to_json_dict(g).edges,
     halfedges |-> to_json_dict(g).halfedges,
     rotation  |-> g.rotation]

\* the locals of main after line 63
Main(graph_dict, wrapper_ops, op_strs, no_validate) ==
    [pc |-> "load", graph_dict |-> graph_dict, wrapper_ops |-> wrapper_ops,
     op_strs |-> op_strs, no_validate |-> no_validate,
     ops |-> <<>>, k |-> 0, applied |-> <<>>,
     written |-> FALSE, out_ops |-> NoOps]

\* input graphs: two faces joined by one or two boundary edges, in every
\* rotation; the same with an entry of a rotation repeated, or missing
DriverGraphs ==
    LET joined == {g \in WellFormedGraphs :
                      /\ Len(g.vertices) = 2
                      /\ \A k \in 1..Len(g.edges) :
                             /\ g.edges[k].u = 0
                             /\ g.edges[k].v = 1
                             /\ g.edges[k].kind = "boundary"}
    IN  joined \cup UNION {RepeatedEntry(g) \cup MissingEntry(g) : g \in joined}

\* --op strings: the two ops with arguments in and out of range, an op with
\* a part missing, an unknown op
OpStrings ==
    {<<"split_arc", e>> : e \in (-1)..2}
        \cup {<<"vertex_split", v, i, j>> : v \in 0..1, i \in 0..2, j \in 0..2}
        \cup {<<"split_arc">>, <<"merge", 0>>}

\* command lines with no, one or two --op
OpLists ==
    {<<>>} \cup {<<a>> : a \in OpStrings} \cup {<<a, b>> : a \in OpStrings, b \in OpStrings}

\* a wrapper without "ops", one that holds the log of an earlier run, one
\* whose "ops" is not a list
WrapperOps == {NoOps, OpsList(<<SplitArcRecord(0, 1)>>), OtherOps}

InitDriver ==
    \E g \in DriverGraphs, wrapper_ops \in WrapperOps, op_strs \in OpLists,
       no_validate \in BOOLEAN :
        /\ driver = Main(GraphDict(g), wrapper_ops, op_strs, no_validate)
        /\ vertices = <<>>
        /\ edges = <<>>
        /\ halfedges = <<>>
        /\ rotation = <<>>
        /\ call = Call("main", <<>>, "running", <<>>)
        /\ pre = EmbeddedDualGraph(<<>>, <<>>, <<>>, <<>>)
        /\ snap = NoSnapshot
        /\ imported = NoImport
        /\ build = NoBuild

\* an exception leaves main: nothing is written
Abort(d, error) ==
    /\ driver' = [d EXCEPT !.pc = "failed"]
    /\ call' = Call("main", <<>>, error, <<>>)

\* lines 65-69: the graph is imported, the ops are parsed
DriverLoad ==
    /\ driver.pc = "load"
    /\ LET i == from_json_dict(driver.graph_dict)
           o == parse_ops(driver.op_strs)
       IN  /\ imported' = i
           /\ IF i.outcome # "ok"
              THEN /\ Abort(driver, i.outcome)
                   /\ UNCHANGED <<vertices, edges, halfedges, rotation>>
              ELSE /\ vertices' = i.g.vertices
                   /\ edges' = i.g.edges
                   /\ halfedges' = i.g.halfedges
                   /\ rotation' = i.g.rotation
                   /\ IF ~o.ok
                      THEN Abort(driver, "ValueError")
                      ELSE /\ driver' = [driver EXCEPT !.pc = "ops", !.ops = o.ops]
                           /\ UNCHANGED call
    /\ UNCHANGED <<pre, snap, build>>

\* lines 71-81, one pass of the loop
DriverApply ==
    /\ driver.pc = "ops"
    /\ driver.k < Len(driver.ops)
    /\ LET o == NextOp(driver)
           a == ApplyOp(Graph, o)
       IN  /\ vertices' = a.r.g.vertices
           /\ edges' = a.r.g.edges
           /\ halfedges' = a.r.g.halfedges
           /\ rotation' = a.r.g.rotation
           /\ call' = Call(o.op, o.ints, a.r.outcome, a.r.ret)
           /\ pre' = Graph
           /\ driver' = IF a.r.outcome = "ok"
                        THEN [driver EXCEPT !.k = @ + 1,
                                            !.applied = Append(@, a.rec)]
                        ELSE [driver EXCEPT !.pc = "failed"]
    /\ UNCHANGED <<snap, imported, build>>

\* lines 83-96: the final validation and the output file
DriverWrite ==
    /\ driver.pc = "ops"
    /\ driver.k = Len(driver.ops)
    /\ IF ~driver.no_validate /\ ~validate(Graph)
       THEN /\ Abort(driver, "ValueError")
            /\ UNCHANGED snap
       ELSE /\ snap' = to_json_dict(Graph)
            /\ driver' = [driver EXCEPT
                              !.pc = "done",
                              !.written = TRUE,
                              !.out_ops = out_ops(driver.wrapper_ops, driver.applied)]
            /\ call' = Call("main", <<>>, "ok", <<>>)
    /\ UNCHANGED <<vertices, edges, halfedges, rotation, pre, imported, build>>

NextDriver == DriverLoad \/ DriverApply \/ DriverWrite

SpecDriver == InitDriver /\ [][NextDriver]_vars

-----------------------------------------------------------------------------
(* build_embedded_dual_from_raster: from a grid of face ids to a graph.    *)
(* Grid points are pairs <<x, y>>; y grows downward.                       *)

VisibleFace(id, color) == [id |-> id, color |-> color]

MicroEdge(p0, p1, left_face, right_face) ==
    [p0 |-> p0, p1 |-> p1, left_face |-> left_face, right_face |-> right_face]

\* the face id written on the outer side of a border micro-edge
Outside == -1

\* comp[y][x]
Pixel(comp, x, y) == comp[y + 1][x + 1]

\* the size test of lines 319-321
SizeMismatch(comp, w, h) == h # Len(comp) \/ (h > 0 /\ w # Len(comp[1]))

\* a row the scan reads past the end of: comp[y][x] at line 345 raises
\* IndexError for some x below w
RowTooShort(comp, w, h) == \E y \in 1..h : Len(comp[y]) < w

\* lines 345-360: what pixel (x, y) appends, the vertical micro-edge to its
\* right first, the horizontal one below it second
MicroAt(comp, w, h, x, y) ==
    LET a     == Pixel(comp, x, y)
        vert  == IF x + 1 < w /\ Pixel(comp, x + 1, y) # a
                 THEN << MicroEdge(<<x + 1, y + 1>>, <<x + 1, y>>, a, Pixel(comp, x + 1, y)) >>
                 ELSE <<>>
        horiz == IF y + 1 < h /\ Pixel(comp, x, y + 1) # a
                 THEN << MicroEdge(<<x, y + 1>>, <<x + 1, y + 1>>, a, Pixel(comp, x, y + 1)) >>
                 ELSE <<>>
    IN  vert \o horiz

\* lines 343-360: the pixels from number k on, row by row
RECURSIVE ScanFrom(_, _, _, _)
ScanFrom(comp, w, h, k) ==
    IF k >= w * h THEN <<>>
    ELSE MicroAt(comp, w, h, k % w, k \div w) \o ScanFrom(comp, w, h, k + 1)

\* the key of pair_to_micro for a micro-edge (lines 351, 358)
PairOf(me) ==
    IF me.left_face < me.right_face
    THEN <<me.left_face, me.right_face>>
    ELSE <<me.right_face, me.left_face>>

\* pair_to_micro[pair]: the micro-edges between the two faces of pair
Mids(ms, pair) == {mid \in 0..(Len(ms) - 1) : PairOf(At(ms, mid)) = pair}

\* sorted(pair_to_micro.items()) at line 380: tuples in lexicographic order
PairLess(p, q) == p[1] < q[1] \/ (p[1] = q[1] /\ p[2] < q[2])

RECURSIVE Sorted(_)
Sorted(S) ==
    IF S = {} THEN <<>>
    ELSE LET lo == CHOOSE p \in S : \A q \in S \ {p} : PairLess(p, q)
         IN  <<lo>> \o Sorted(S \ {lo})

SortedPairs(ms) == Sorted({PairOf(At(ms, mid)) : mid \in 0..(Len(ms) - 1)})

\* two micro-edges meet only where one ends and the other begins
Touch_HeadToTail(ms, m1, m2) ==
    At(ms, m1).p1 = At(ms, m2).p0 \/ At(ms, m2).p1 = At(ms, m1).p0

\* endpoint_adjacency (lines 371-377): two micro-edges meet in a grid point
Touch(ms, m1, m2) ==
    {At(ms, m1).p0, At(ms, m1).p1} \cap {At(ms, m2).p0, At(ms, m2).p1} # {}

\* the search that stops after the neighbours of its starting micro-edge
ComponentFrom_NeighboursOnly(ms, found, pool) ==
    found \cup {m \in pool \ found : \E f \in found : Touch(ms, f, m)}

\* lines 384-396: everything in pool reachable from found through shared
\* grid points
RECURSIVE ComponentFrom(_, _, _)
ComponentFrom(ms, found, pool) ==
    LET more == {m \in pool \ found : \E f \in found : Touch(ms, f, m)}
    IN  IF more = {} THEN found ELSE ComponentFrom(ms, found \cup more, pool)

\* add_dual_edge (lines 362-369) on the lists of b
add_dual_edge(b, u, v, kind) ==
    LET eid  == Len(b.edges)
        he_u == Len(b.halfedges)
        he_v == he_u + 1
    IN  [b EXCEPT
            !.halfedges = @ \o << HalfEdge(he_u, eid, u), HalfEdge(he_v, eid, v) >>,
            !.edges     = Append(@, DualEdge(eid, u, v, kind, he_u, he_v))]

\* micro_to_dual_edge[microedges[mid].key()] = eid for every mid of mids;
\* keys are distinct for distinct micro-edges, so the dict is kept by mid
MapTo(m2d, mids, eid) == [m \in mids |-> eid] @@ m2d

\* line 380 and line 382: enter the first pair still to do, or go on to the
\* green ports when no pair is left
EnterPair(b) ==
    IF b.pairs = <<>>
    THEN [b EXCEPT !.pc = "green", !.unvisited = {}]
    ELSE [b EXCEPT !.pc = "components",
                   !.unvisited = Mids(b.microedges, Head(b.pairs))]

\* the locals before the first statement
Locals(faces, comp, image_size, green_sides) ==
    [pc |-> "scan", faces |-> faces, comp |-> comp, image_size |-> image_size,
     green_sides |-> green_sides,
     vertices |-> <<>>, edges |-> <<>>, halfedges |-> <<>>, rotation |-> <<>>,
     microedges |-> <<>>, micro_to_dual_edge |-> <<>>,
     pairs |-> <<>>, unvisited |-> {}, fid |-> 0, walks |-> <<>>,
     outcome |-> "running"]

\* the function has raised
Failed(b, error) == [b EXCEPT !.pc = "failed", !.outcome = error]

\* lines 318-360 and 380: size test, face vertices, empty rotations, the
\* scan for micro-edges, the sorted face pairs
scan(b) ==
    LET w == b.image_size[1]
        h == b.image_size[2]
    IN  IF SizeMismatch(b.comp, w, h) THEN Failed(b, "ValueError")
        ELSE IF RowTooShort(b.comp, w, h) THEN Failed(b, "IndexError")
        ELSE LET ms == ScanFrom(b.comp, w, h, 0)
             IN  EnterPair([b EXCEPT
                     !.vertices = [k \in 1..Len(b.faces) |->
                                      DualVertex(b.faces[k].id, "face", b.faces[k].color,
                                                 b.faces[k].id, NoSide)],
                     !.rotation = [k \in 1..Len(b.faces) |-> <<>>],
                     !.microedges = ms,
                     !.pairs = SortedPairs(ms)])

\* one round of the loop at line 383, entered at the micro-edge start: its
\* component gets one boundary edge
discover(b, start) ==
    LET pair      == Head(b.pairs)
        comp_mids == ComponentFrom(b.microedges, {start}, b.unvisited)
        eid       == Len(b.edges)
        b1        == add_dual_edge(b, pair[1], pair[2], "boundary")
        b2        == [b1 EXCEPT
                         !.micro_to_dual_edge = MapTo(@, comp_mids, eid),
                         !.unvisited = @ \ comp_mids]
    IN  IF b2.unvisited # {} THEN b2
        ELSE EnterPair([b2 EXCEPT !.pairs = Tail(@)])

\* _boundary_runs that takes a whole side for one run
boundary_runs_WholeSide(seq) ==
    IF seq = <<>> THEN <<>> ELSE << <<At(seq, 0), 0, Len(seq)>> >>

\* the loop of _boundary_runs from index i on (lines 293-299)
RECURSIVE RunsFrom(_, _, _, _)
RunsFrom(seq, cur, start, i) ==
    IF i >= Len(seq) THEN << <<cur, start, Len(seq)>> >>
    ELSE IF At(seq, i) # cur
         THEN << <<cur, start, i>> >> \o RunsFrom(seq, At(seq, i), i, i + 1)
         ELSE RunsFrom(seq, cur, start, i + 1)

\* _boundary_runs (lines 284-300): the runs <<face_id, start, end_excl>>
boundary_runs(seq) ==
    IF seq = <<>> THEN <<>> ELSE RunsFrom(seq, At(seq, 0), 0, 1)

\* the border pixels of a side (lines 419, 425, 431, 438)
SidePixels(comp, side, w, h) ==
    CASE side = "top"    -> [x \in 1..w |-> Pixel(comp, x - 1, 0)]
      [] side = "bottom" -> [x \in 1..w |-> Pixel(comp, x - 1, h - 1)]
      [] side = "left"   -> [y \in 1..h |-> Pixel(comp, 0, y - 1)]
      [] side = "right"  -> [y \in 1..h |-> Pixel(comp, w - 1, y - 1)]

\* the border micro-edge of cell k of a side (lines 422, 428, 435, 442)
SideMicro(side, face_id, k, w, h) ==
    CASE side = "top"    -> MicroEdge(<<k, 0>>, <<k + 1, 0>>, Outside, face_id)
      [] side = "bottom" -> MicroEdge(<<k, h>>, <<k + 1, h>>, face_id, Outside)
      [] side = "left"   -> MicroEdge(<<0, k + 1>>, <<0, k>>, Outside, face_id)
      [] side = "right"  -> MicroEdge(<<w, k + 1>>, <<w, k>>, face_id, Outside)

\* AddRun that tags every green vertex with the top side
AddRun_TopTag(b, side, run, w, h) ==
    LET gid   == Len(b.vertices)
        eid   == Len(b.edges)
        b1    == add_dual_edge(
                     [b EXCEPT
                         !.vertices = Append(@, DualVertex(gid, "green", NoneVal, NoneVal, "top")),
                         !.rotation = Append(@, <<>>)],
                     run[1], gid, "boundary")
        first == Len(b.microedges)
        new   == [k \in 1..(run[3] - run[2]) |->
                     SideMicro(side, run[1], run[2] + k - 1, w, h)]
    IN  [b1 EXCEPT
            !.microedges = @ \o new,
            !.micro_to_dual_edge = MapTo(@, first..(first + Len(new) - 1), eid)]

\* add_green (lines 404-415) and the loop over the cells of the run
AddRun(b, side, run, w, h) ==
    LET gid   == Len(b.vertices)
        eid   == Len(b.edges)
        b1    == add_dual_edge(
                     [b EXCEPT
                         !.vertices = Append(@, DualVertex(gid, "green", NoneVal, NoneVal, side)),
                         !.rotation = Append(@, <<>>)],
                     run[1], gid, "boundary")
        first == Len(b.microedges)
        new   == [k \in 1..(run[3] - run[2]) |->
                     SideMicro(side, run[1], run[2] + k - 1, w, h)]
    IN  [b1 EXCEPT
            !.microedges = @ \o new,
            !.micro_to_dual_edge = MapTo(@, first..(first + Len(new) - 1), eid)]

RECURSIVE AddRuns(_, _, _, _, _)
AddRuns(b, side, runs, w, h) ==
    IF runs = <<>> THEN b
    ELSE AddRuns(AddRun(b, side, Head(runs), w, h), side, Tail(runs), w, h)

AddSide(b, side) ==
    LET w == b.image_size[1]
        h == b.image_size[2]
    IN  AddRuns(b, side, boundary_runs(SidePixels(b.comp, side, w, h)), w, h)

\* line 466: the first face to trace, or none
EnterTrace(b) ==
    IF Len(b.faces) = 0 THEN [b EXCEPT !.pc = "finish"]
    ELSE [b EXCEPT !.pc = "trace", !.fid = 0]

\* lines 402-443: the four sides in the order top, bottom, left, right
green_ports(b) ==
    EnterTrace(
        IF b.green_sides /\ b.image_size[2] > 0
        THEN AddSide(AddSide(AddSide(AddSide(b, "top"), "bottom"), "left"), "right")
        ELSE b)

\* lines 449-456: the keys of dir_to_micro[fid] in insertion order, each
\* with its micro-edge
RECURSIVE DirectedFrom(_, _, _)
DirectedFrom(ms, fid, mid) ==
    IF mid >= Len(ms) THEN <<>>
    ELSE LET me == At(ms, mid)
             l  == IF me.left_face = fid
                   THEN << [u |-> me.p0, v |-> me.p1, mid |-> mid] >> ELSE <<>>
             r  == IF me.right_face = fid
                   THEN << [u |-> me.p1, v |-> me.p0, mid |-> mid] >> ELSE <<>>
         IN  l \o r \o DirectedFrom(ms, fid, mid + 1)

\* out_map[fid].get(p, set())
Outs(directed, p) ==
    {directed[k].v : k \in {n \in 1..Len(directed) : directed[n].u = p}}

turn_left(dx, dy) == <<dy, -dx>>

turn_right(dx, dy) == <<-dy, dx>>

\* the candidates with the right turn tried first
Candidates_RightFirst(dx, dy) ==
    << turn_right(dx, dy), <<dx, dy>>, turn_left(dx, dy), <<-dx, -dy>> >>

\* line 491
Candidates(dx, dy) ==
    << turn_left(dx, dy), <<dx, dy>>, turn_right(dx, dy), <<-dx, -dy>> >>

\* nxt is None
NoPoint == <<>>

\* the choice that ignores the direction of arrival: the outgoing point of
\* cur_v that comes first in the order of PairLess
NextPoint_SmallestOut(directed, cur_u, cur_v) ==
    LET outs == Outs(directed, cur_v)
    IN  IF outs = {} THEN NoPoint
        ELSE CHOOSE p \in outs : \A q \in outs \ {p} : PairLess(p, q)

\* lines 489-498: the first candidate that is an outgoing point of cur_v
NextPoint(directed, cur_u, cur_v) ==
    LET cands == Candidates(cur_v[1] - cur_u[1], cur_v[2] - cur_u[2])
        outs  == Outs(directed, cur_v)
        hits  == {k \in 1..4 :
                     <<cur_v[1] + cands[k][1], cur_v[2] + cands[k][2]>> \in outs}
    IN  IF hits = {} THEN NoPoint
        ELSE LET k == CHOOSE n \in hits : \A o \in hits : n <= o
             IN  <<cur_v[1] + cands[k][1], cur_v[2] + cands[k][2]>>

\* the loop of lines 479-503 from the directed edge cur on.  seen holds the
\* directed edges this walk has passed; coming back to one of them that is
\* not start means the loop never ends, reported as "hang"
RECURSIVE Walk(_, _, _, _, _, _)
Walk(directed, m2d, start, cur, seq_edges, seen) ==
    LET at    == {k \in 1..Len(directed) :
                     directed[k].u = cur[1] /\ directed[k].v = cur[2]}
        stop(status, seq, vis) ==
            [status |-> status, seq_edges |-> seq, visited |-> vis]
    IN  IF at = {} THEN stop("RuntimeError", seq_edges, seen \cup {cur})
        ELSE LET mid == directed[CHOOSE k \in at : TRUE].mid
                 vis == seen \cup {cur}
             IN  IF mid \notin DOMAIN m2d THEN stop("RuntimeError", seq_edges, vis)
                 ELSE LET seq == Append(seq_edges, m2d[mid])
                          nxt == NextPoint(directed, cur[1], cur[2])
                      IN  IF nxt = NoPoint THEN stop("RuntimeError", seq, vis)
                          ELSE IF <<cur[2], nxt>> = start THEN stop("ok", seq, vis)
                          ELSE IF <<cur[2], nxt>> \in vis THEN stop("hang", seq, vis)
                          ELSE Walk(directed, m2d, start, <<cur[2], nxt>>, seq, vis)

\* lines 505-508: drop an id equal to the one kept before it
RECURSIVE Collapse(_, _)
Collapse(seq, compressed) ==
    IF seq = <<>> THEN compressed
    ELSE Collapse(Tail(seq),
                  IF compressed = <<>> \/ Last(compressed) # Head(seq)
                  THEN Append(compressed, Head(seq))
                  ELSE compressed)

\* lines 504-510
compress(seq_edges) ==
    LET compressed == Collapse(seq_edges, <<>>)
    IN  IF Len(compressed) > 1 /\ compressed[1] = Last(compressed)
        THEN Front(compressed)
        ELSE compressed

\* the loop of line 473 from key number k on: a walk from every key not yet
\* visited.  walks keeps seq_edges of each walk as it was before compress
RECURSIVE TraceFrom(_, _, _, _, _, _)
TraceFrom(directed, m2d, k, visited, cycles, walks) ==
    IF k > Len(directed)
    THEN [status |-> "ok", cycles |-> cycles, walks |-> walks]
    ELSE LET key == <<directed[k].u, directed[k].v>>
         IN  IF key \in visited
             THEN TraceFrom(directed, m2d, k + 1, visited, cycles, walks)
             ELSE LET wk == Walk(directed, m2d, key, key, <<>>, {})
                  IN  IF wk.status # "ok"
                      THEN [status |-> wk.status, cycles |-> cycles,
                            walks |-> Append(walks, wk.seq_edges)]
                      ELSE TraceFrom(directed, m2d, k + 1, visited \cup wk.visited,
                                     Append(cycles, compress(wk.seq_edges)),
                                     Append(walks, wk.seq_edges))

\* lines 521-528: the half-edge of edge deid that leaves fid, NoneVal when
\* the edge does not touch fid
HalfEdgeOf(es, fid, deid) ==
    LET e == At(es, deid)
    IN  IF e.u = fid THEN e.he_u ELSE IF e.v = fid THEN e.he_v ELSE NoneVal

\* line 466: the next face, or the green rotations after the last one
NextFace(b) ==
    IF b.fid + 1 < Len(b.faces)
    THEN [b EXCEPT !.fid = @ + 1]
    ELSE [b EXCEPT !.pc = "finish"]

\* one round of the loop at line 466, for face b.fid
trace_face(b) ==
    LET fid      == b.fid
        directed == DirectedFrom(b.microedges, fid, 0)
    IN  IF directed = <<>>
        THEN NextFace([b EXCEPT !.rotation = SetAt(@, fid, <<>>),
                                !.walks = Append(@, <<>>)])
        ELSE LET t  == TraceFrom(directed, b.micro_to_dual_edge, 1, {}, <<>>, <<>>)
                 b1 == [b EXCEPT !.walks = Append(@, t.walks)]
             IN  IF t.status # "ok" THEN Failed(b1, t.status)
                 ELSE IF Len(t.cycles) # 1 THEN Failed(b1, "NotImplementedError")
                 ELSE LET edge_order == t.cycles[1]
                          rot_he == [k \in 1..Len(edge_order) |->
                                        HalfEdgeOf(b.edges, fid, edge_order[k])]
                      IN  IF \E k \in 1..Len(rot_he) : rot_he[k] = NoneVal
                          THEN Failed(b1, "RuntimeError")
                          ELSE NextFace([b1 EXCEPT !.rotation = SetAt(@, fid, rot_he)])

\* lines 532-539: the half-edges at vid in the order of the edge list
RECURSIVE Incident(_, _, _)
Incident(es, vid, k) ==
    IF k > Len(es) THEN <<>>
    ELSE (IF es[k].u = vid THEN << es[k].he_u >>
          ELSE IF es[k].v = vid THEN << es[k].he_v >>
          ELSE <<>>) \o Incident(es, vid, k + 1)

\* lines 531-543: rotations of the green vertices, construct, validate
finish(b) ==
    LET rot == [k \in 1..Len(b.vertices) |->
                   IF k - 1 >= Len(b.faces)
                   THEN Incident(b.edges, k - 1, 1)
                   ELSE b.rotation[k]]
        b1  == [b EXCEPT !.rotation = rot]
    IN  IF validate(EmbeddedDualGraph(b1.vertices, b1.edges, b1.halfedges, b1.rotation))
        THEN [b1 EXCEPT !.pc = "done", !.outcome = "ok"]
        ELSE Failed(b1, "ValueError")

-----------------------------------------------------------------------------
(* The grids construction is run on.                                       *)

Labels == {0, 1, 2}

GridsOf(w, h, labels) == [1..h -> [1..w -> labels]]

\* every 2 x 2 grid over three labels, every 3 x 3 grid in two labels, and
\* the 3 x 3 grids with a third face in the bottom row only
SmallGrids == GridsOf(2, 2, Labels)

TwoFaceGrids == GridsOf(3, 3, {0, 1})

ThirdFaceGrids ==
    {<<r1, r2, r3>> :
        r1 \in [1..3 -> {0, 1}], r2 \in [1..3 -> {0, 1}],
        r3 \in {r \in [1..3 -> Labels] : \E x \in 1..3 : r[x] = 2}}

\* the 2 x 2 grids in two labels with a pixel added to the second row, or
\* taken from it
RaggedGrids ==
    {<<g[1], Append(g[2], a)>> : g \in GridsOf(2, 2, {0, 1}), a \in {0, 1}}
        \cup {<<g[1], <<g[2][1]>> >> : g \in GridsOf(2, 2, {0, 1})}

\* an image size that is the grid's own, or one too wide, or one too high
SizesFor(comp) ==
    { <<Len(comp[1]), Len(comp)>>,
      <<Len(comp[1]) + 1, Len(comp)>>,
      <<Len(comp[1]), Len(comp) + 1>> }

\* faces 0..n-1, n one more than the largest label of the grid, in two colours
FacesFor(comp) ==
    LET top == CHOOSE a \in Labels :
                   /\ \E y \in 1..Len(comp) : \E x \in 1..Len(comp[y]) : comp[y][x] = a
                   /\ \A y \in 1..Len(comp) : \A x \in 1..Len(comp[y]) : comp[y][x] <= a
    IN  [k \in 1..(top + 1) |-> VisibleFace(k - 1, (k - 1) % 2)]

NoGraph == EmbeddedDualGraph(<<>>, <<>>, <<>>, <<>>)

\* the function has been called and has not run its first statement
Called(comp, image_size, green_sides) ==
    /\ build = Locals(FacesFor(comp), comp, image_size, green_sides)
    /\ vertices = <<>>
    /\ edges = <<>>
    /\ halfedges = <<>>
    /\ rotation = <<>>
    /\ call = Call("build_embedded_dual_from_raster", <<>>, "running", <<>>)
    /\ pre = NoGraph
    /\ snap = NoSnapshot
    /\ imported = NoImport
    /\ driver = NoDriver

InitRaster ==
    \/ \E comp \in SmallGrids, green_sides \in BOOLEAN :
           \E size \in SizesFor(comp) : Called(comp, size, green_sides)
    \/ \E comp \in TwoFaceGrids \cup ThirdFaceGrids, green_sides \in BOOLEAN :
           Called(comp, <<3, 3>>, green_sides)
    \/ \E comp \in RaggedGrids, green_sides \in BOOLEAN :
           Called(comp, <<2, 2>>, green_sides)

\* a step inside the function: only its locals change
Step(b) ==
    /\ build' = b
    /\ call' = IF b.pc = "failed"
               THEN Call("build_embedded_dual_from_raster", <<>>, b.outcome, <<>>)
               ELSE call
    /\ UNCHANGED <<vertices, edges, halfedges, rotation, pre, snap, imported, driver>>

\* the function returns the graph made of its lists (lines 541-543)
Return(b) ==
    /\ build' = b
    /\ vertices' = b.vertices
    /\ edges' = b.edges
    /\ halfedges' = b.halfedges
    /\ rotation' = b.rotation
    /\ call' = Call("build_embedded_dual_from_raster", <<>>, "ok", <<>>)
    /\ UNCHANGED <<pre, snap, imported, driver>>

Scan ==
    /\ build.pc = "scan"
    /\ Step(scan(build))

DiscoverComponent ==
    /\ build.pc = "components"
    /\ \E start \in build.unvisited : Step(discover(build, start))

GreenPorts ==
    /\ build.pc = "green"
    /\ Step(green_ports(build))

TraceFace ==
    /\ build.pc = "trace"
    /\ Step(trace_face(build))

Finish ==
    /\ build.pc = "finish"
    /\ LET b == finish(build)
       IN  IF b.pc = "done" THEN Return(b) ELSE Step(b)

NextRaster == Scan \/ DiscoverComponent \/ GreenPorts \/ TraceFace \/ Finish

SpecRaster == InitRaster /\ [][NextRaster]_vars

-----------------------------------------------------------------------------
(* Construction followed by a run of split_arc and vertex_split calls on   *)
(* the graph it returned.                                                  *)

\* two faces one above the other; one face in the corner of another; a face
\* enclosed by another; two faces that meet along two separate stretches
\* with a third face between them
RefineGrids ==
    { << <<0, 0>>, <<1, 1>> >>,
      << <<0, 0>>, <<0, 1>> >>,
      << <<0, 0, 0>>, <<0, 1, 0>>, <<0, 0, 0>> >>,
      << <<0, 0, 0>>, <<0, 2, 1>>, <<1, 1, 1>> >> }

\* the numbers of calls already made at which one more call is made
RefineDepths == {0, 1}

InitRefine ==
    \E comp \in RefineGrids, green_sides \in BOOLEAN :
        Called(comp, <<Len(comp[1]), Len(comp)>>, green_sides)

\* the graph has been returned and no call on it has raised; each call that
\* returned has added one edge
Refining ==
    /\ build.pc = "done"
    /\ call.outcome = "ok"
    /\ (Len(edges) - Len(build.edges)) \in RefineDepths

RefineSplitArc ==
    /\ Refining
    /\ \E edge_id \in Around(Len(edges)) :
           Commit("split_arc", <<edge_id>>, split_arc(Graph, edge_id))

RefineVertexSplit ==
    /\ Refining
    /\ \E vertex_id \in Around(Len(vertices)) :
         LET deg == IF vertex_id >= 0 /\ vertex_id < Len(rotation)
                    THEN Len(At(rotation, vertex_id)) ELSE 0
         IN  \E i \in Around(deg), j \in Around(deg) :
                 Commit("vertex_split", <<vertex_id, i, j>>,
                        vertex_split(Graph, vertex_id, i, j))

NextRefine ==
    \/ Scan \/ DiscoverComponent \/ GreenPorts \/ TraceFace \/ Finish
    \/ RefineSplitArc \/ RefineVertexSplit

SpecRefine == InitRefine /\ [][NextRefine]_vars

-----------------------------------------------------------------------------
(* Vocabulary of the properties.                                           *)

Succeeded(op) == call.op = op /\ call.outcome = "ok"

Raised(op) == call.op = op /\ call.outcome # "ok"

\* the edge a split_arc call was given, as it was on entry
SplitEdge == At(pre.edges, call.args[1])

\* the edge a successful call created
NewEdge == At(edges, call.ret[Len(call.ret)])

\* y stands directly after some occurrence of x in the cyclic list items
CyclicSuccessor(items, x, y) ==
    \E k \in 1..Len(items) :
        items[k] = x /\ items[(k % Len(items)) + 1] = y

-----------------------------------------------------------------------------
\* C1: a successful split_arc or vertex_split on a graph that passes
\* validate() leaves a graph that passes validate().
C1_ValidatePreserved ==
    ((Succeeded("split_arc") \/ Succeeded("vertex_split")) /\ validate(pre))
        => validate(Graph)

\* C2: when split_arc raises, the four lists are what they were on entry.
C2_SplitArcFailureNoMutation ==
    Raised("split_arc") => Graph = pre

\* C3: when vertex_split raises on a graph that passes validate(), the four
\* lists are what they were on entry.
C3_VertexSplitFailureNoMutation ==
    (Raised("vertex_split") /\ validate(pre)) => Graph = pre

\* C4: after a successful split_arc(e) on a graph that passes validate(),
\* the new half-edge at u directly follows e.he_u in rotation[u] and the new
\* half-edge at v directly follows e.he_v in rotation[v], loops included.
C4_NewHalfEdgesAreSuccessors ==
    (Succeeded("split_arc") /\ validate(pre)) =>
        /\ CyclicSuccessor(At(rotation, SplitEdge.u), SplitEdge.he_u, NewEdge.he_u)
        /\ CyclicSuccessor(At(rotation, SplitEdge.v), SplitEdge.he_v, NewEdge.he_v)

\* what split_arc(e) allocates: one edge, two half-edges, the new edge a
\* copy of e in kind and endpoints, its id the old edge count, returned
SplitArcAllocation ==
    /\ Len(edges) = Len(pre.edges) + 1
    /\ Len(halfedges) = Len(pre.halfedges) + 2
    /\ NewEdge.kind = SplitEdge.kind
    /\ NewEdge.u = SplitEdge.u
    /\ NewEdge.v = SplitEdge.v
    /\ NewEdge.id = Len(pre.edges)
    /\ call.ret = <<Len(pre.edges)>>
    /\ Last(edges) = NewEdge

\* rotation[w] is k entries longer than on entry
Grew(w, k) == Len(At(rotation, w)) = Len(At(pre.rotation, w)) + k

\* C5 as stated: a successful split_arc(e), e = (u, v), adds one edge and
\* two half-edges, makes rotation[u] and rotation[v] one entry longer each,
\* and returns the id of a new edge of e's kind and endpoints.
C5_SplitArcCountsAsStated ==
    Succeeded("split_arc") =>
        /\ SplitArcAllocation
        /\ Grew(SplitEdge.u, 1)
        /\ Grew(SplitEdge.v, 1)

\* C5 amended: as above, but when u = v the one rotation list the two
\* endpoints share grows by two entries.
C5_SplitArcCounts ==
    Succeeded("split_arc") =>
        /\ SplitArcAllocation
        /\ IF SplitEdge.u # SplitEdge.v
           THEN Grew(SplitEdge.u, 1) /\ Grew(SplitEdge.v, 1)
           ELSE Grew(SplitEdge.u, 2)

\* a loop edge of kind internal has been split
C5_Witness ==
    /\ Succeeded("split_arc")
    /\ SplitEdge.u = SplitEdge.v
    /\ SplitEdge.kind = "internal"

-----------------------------------------------------------------------------
\* half-edge id h existed when the call was entered
Old(h) == h < Len(pre.halfedges)

\* C6: a successful split_arc(e), e = (u, v), keeps the order of the entries
\* that were already in each rotation list, leaves the rotation of every
\* vertex other than u and v as it was, and changes no field of a vertex,
\* edge or half-edge that existed on entry.
C6_SplitArcFrame ==
    Succeeded("split_arc") =>
        /\ Len(rotation) = Len(pre.rotation)
        /\ \A w \in 0..(Len(pre.rotation) - 1) :
               /\ SelectSeq(At(rotation, w), Old) = At(pre.rotation, w)
               /\ w \notin {SplitEdge.u, SplitEdge.v}
                      => At(rotation, w) = At(pre.rotation, w)
        /\ vertices = pre.vertices
        /\ SubSeq(edges, 1, Len(pre.edges)) = pre.edges
        /\ SubSeq(halfedges, 1, Len(pre.halfedges)) = pre.halfedges

\* an edge was split at a vertex of degree three or more while another
\* vertex had a rotation of its own
C6_Witness ==
    /\ Succeeded("split_arc")
    /\ Len(At(pre.rotation, SplitEdge.u)) >= 3
    /\ \E w \in 0..(Len(pre.rotation) - 1) :
           /\ w \notin {SplitEdge.u, SplitEdge.v}
           /\ At(pre.rotation, w) # <<>>

-----------------------------------------------------------------------------
\* the arguments and results of a vertex_split call
SplitVertex == call.args[1]
SplitI == call.args[2]
SplitJ == call.args[3]
NewVertex == call.ret[1]

\* the rotation of the split vertex on entry
OldRotation == At(pre.rotation, SplitVertex)

\* C7: after a successful vertex_split(v, i, j) the rotations of v and v'
\* together are two entries longer than the rotation of v was, and the two
\* half-edges of the new internal edge are the last entry of rotation[v]
\* (origin v) and the last entry of rotation[v'] (origin v').
C7_VertexSplitAppendsNewHalfEdges ==
    Succeeded("vertex_split") =>
        /\ Len(At(rotation, SplitVertex)) + Len(At(rotation, NewVertex))
               = Len(OldRotation) + 2
        /\ NewEdge.id = Len(pre.edges)
        /\ NewEdge.kind = "internal"
        /\ {NewEdge.he_u, NewEdge.he_v}
               = {Len(pre.halfedges), Len(pre.halfedges) + 1}
        /\ Last(At(rotation, SplitVertex)) = NewEdge.he_u
        /\ At(halfedges, NewEdge.he_u).origin = SplitVertex
        /\ Last(At(rotation, NewVertex)) = NewEdge.he_v
        /\ At(halfedges, NewEdge.he_v).origin = NewVertex

\* a vertex of degree three or more has been split
C7_Witness ==
    /\ Succeeded("vertex_split")
    /\ Len(OldRotation) >= 3

\* the len entries of the cyclic list items from 0-based position a on
CyclicRun(items, a, len) ==
    [k \in 1..len |-> items[((a + k - 1) % Len(items)) + 1]]

\* C8: after a successful vertex_split(v, i, j) on a rotation R of length
\* n, rotation[v'] without its last entry is R[i], R[i+1], ... up to but
\* not R[j] (indices mod n), rotation[v] without its last entry is the run
\* from R[j] up to but not R[i]; both are non-empty, they cover the n
\* positions once each, and remaining followed by moved is R shifted by j.
C8_VertexSplitSlices ==
    Succeeded("vertex_split") =>
        LET n         == Len(OldRotation)
            moved     == Front(At(rotation, NewVertex))
            remaining == Front(At(rotation, SplitVertex))
        IN  /\ moved = CyclicRun(OldRotation, SplitI, (SplitJ - SplitI) % n)
            /\ remaining = CyclicRun(OldRotation, SplitJ, (SplitI - SplitJ) % n)
            /\ moved # <<>>
            /\ remaining # <<>>
            /\ Len(moved) + Len(remaining) = n
            /\ remaining \o moved = CyclicRun(OldRotation, SplitJ, n)

\* a split whose moved slice wraps past the end of the list
C8_Witness ==
    /\ Succeeded("vertex_split")
    /\ SplitI > SplitJ
    /\ SplitJ > 0
    /\ Len(OldRotation) >= 3

\* the half-edge ids in the moved slice [i, j) of the old rotation
MovedSet ==
    LET run == CyclicRun(OldRotation, SplitI,
                         (SplitJ - SplitI) % Len(OldRotation))
    IN  {run[k] : k \in 1..Len(run)}

\* C9: after a successful vertex_split(v, i, j) on a graph that passes
\* validate(), every moved half-edge has origin v' and its edge has v' as
\* the endpoint on that half-edge's side; every other half-edge keeps its
\* origin, every endpoint not attached to a moved half-edge keeps its value,
\* and the rotations of all vertices other than v and v' are unchanged.
C9_VertexSplitRewiring ==
    (Succeeded("vertex_split") /\ validate(pre)) =>
        /\ \A h \in MovedSet :
               LET e == At(edges, At(halfedges, h).edge)
               IN  /\ At(halfedges, h).origin = NewVertex
                   /\ e.he_u = h => e.u = NewVertex
                   /\ e.he_v = h => e.v = NewVertex
        /\ \A h \in 0..(Len(pre.halfedges) - 1) :
               h \notin MovedSet
                   => At(halfedges, h).origin = At(pre.halfedges, h).origin
        /\ \A k \in 0..(Len(pre.edges) - 1) :
               /\ At(pre.edges, k).he_u \notin MovedSet
                      => At(edges, k).u = At(pre.edges, k).u
               /\ At(pre.edges, k).he_v \notin MovedSet
                      => At(edges, k).v = At(pre.edges, k).v
        /\ \A w \in 0..(Len(pre.rotation) - 1) :
               w # SplitVertex => At(rotation, w) = At(pre.rotation, w)

-----------------------------------------------------------------------------
\* the call vertex_split(v, i, j) falls under one of the listed cases
Rejectable ==
    \/ SplitVertex < 0
    \/ SplitVertex >= Len(pre.vertices)
    \/ At(pre.vertices, SplitVertex).kind # "face"
    \/ Len(OldRotation) < 2
    \/ SplitI < 0
    \/ SplitI >= Len(OldRotation)
    \/ SplitJ < 0
    \/ SplitJ >= Len(OldRotation)
    \/ SplitI = SplitJ

\* C10: vertex_split(vertex_id, i, j) raises the operation error and leaves
\* the vertex, edge and half-edge counts as they were when vertex_id is out
\* of range, the vertex is not a face, its rotation has fewer than two
\* entries, i or j is outside 0..degree-1, or i = j.
C10_VertexSplitRejects ==
    (call.op = "vertex_split" /\ Rejectable) =>
        /\ call.outcome = "ValueError"
        /\ Len(vertices) = Len(pre.vertices)
        /\ Len(edges) = Len(pre.edges)
        /\ Len(halfedges) = Len(pre.halfedges)

\* a face of degree two or more was asked to be split with j one past its
\* last index
C10_Witness ==
    /\ call.op = "vertex_split"
    /\ SplitVertex >= 0
    /\ SplitVertex < Len(pre.vertices)
    /\ At(pre.vertices, SplitVertex).kind = "face"
    /\ Len(OldRotation) >= 2
    /\ SplitI = 0
    /\ SplitJ = Len(OldRotation)
    /\ call.outcome = "ValueError"

-----------------------------------------------------------------------------
\* C13: no call removes anything: the three record counts and the rotation
\* table never shrink, every record that was there on entry is at the same
\* index with the same id, an edge keeps its kind, he_u and he_v, a
\* half-edge keeps its edge, and a split vertex keeps its id and its entry
\* in the rotation table.
C13_AppendOnly ==
    call.op # "construct" =>
        /\ Len(vertices) >= Len(pre.vertices)
        /\ Len(edges) >= Len(pre.edges)
        /\ Len(halfedges) >= Len(pre.halfedges)
        /\ Len(rotation) >= Len(pre.rotation)
        /\ \A k \in 1..Len(pre.vertices) : vertices[k].id = pre.vertices[k].id
        /\ \A k \in 1..Len(pre.edges) :
               /\ edges[k].id = pre.edges[k].id
               /\ edges[k].kind = pre.edges[k].kind
               /\ edges[k].he_u = pre.edges[k].he_u
               /\ edges[k].he_v = pre.edges[k].he_v
        /\ \A k \in 1..Len(pre.halfedges) :
               /\ halfedges[k].id = pre.halfedges[k].id
               /\ halfedges[k].edge = pre.halfedges[k].edge
        /\ Succeeded("vertex_split") =>
               /\ At(vertices, SplitVertex).id = SplitVertex
               /\ SplitVertex < Len(rotation)

\* a vertex was split and an edge that was there on entry got a new endpoint
C13_Witness ==
    /\ Succeeded("vertex_split")
    /\ \E k \in 1..Len(pre.edges) :
           edges[k].u # pre.edges[k].u \/ edges[k].v # pre.edges[k].v

-----------------------------------------------------------------------------
\* the places (vertex, position) where half-edge id h stands in a rotation
Places(g, h) ==
    {p \in UNION {{<<w, k>> : k \in 1..Len(g.rotation[w])} : w \in 1..Len(g.rotation)} :
        g.rotation[p[1]][p[2]] = h}

\* every rotation entry is a half-edge id, and every half-edge id stands
\* exactly once in the rotation of its origin and in no other rotation
Partition(g) ==
    /\ \A w \in 1..Len(g.rotation) : \A k \in 1..Len(g.rotation[w]) :
           g.rotation[w][k] \in 0..(Len(g.halfedges) - 1)
    /\ \A h \in 0..(Len(g.halfedges) - 1) :
           /\ Cardinality(Places(g, h)) = 1
           /\ \A p \in Places(g, h) : p[1] - 1 = At(g.halfedges, h).origin

\* C20: if the rotation lists partition the half-edges by origin before a
\* successful split_arc or vertex_split, they do so after it.
C20_PartitionPreserved ==
    ((Succeeded("split_arc") \/ Succeeded("vertex_split")) /\ Partition(pre))
        => Partition(Graph)

\* a vertex of degree three or more of a partitioned graph has been split
C20_Witness ==
    /\ Succeeded("vertex_split")
    /\ Partition(pre)
    /\ Len(OldRotation) >= 3
    /\ Len(pre.vertices) >= 2

-----------------------------------------------------------------------------
(* Snapshot claims, checked under SpecSnapshot.                            *)

Exported == snap.exported
Imported == imported.outcome # "none"

RotationPerVertex(d) == Len(d.rotation) = Len(d.vertices)

RotationEntriesOwned(d) ==
    \A w \in 0..(Len(d.rotation) - 1) :
        \A he \in Range(At(d.rotation, w)) :
            /\ he \in 0..(Len(d.halfedges) - 1)
            /\ At(d.halfedges, he).origin = w

BackReferences(d) ==
    \A k \in 0..(Len(d.edges) - 1) :
        LET e == At(d.edges, k)
        IN  /\ {e.he_u, e.he_v} \subseteq 0..(Len(d.halfedges) - 1)
            /\ At(d.halfedges, e.he_u).edge = e.id
            /\ At(d.halfedges, e.he_v).edge = e.id
            /\ At(d.halfedges, e.he_u).origin = e.u
            /\ At(d.halfedges, e.he_v).origin = e.v

EndsInRotation(d) ==
    \A k \in 0..(Len(d.edges) - 1) :
        LET e == At(d.edges, k)
        IN  /\ {e.u, e.v} \subseteq 0..(Len(d.rotation) - 1)
            /\ e.he_u \in Range(At(d.rotation, e.u))
            /\ e.he_v \in Range(At(d.rotation, e.v))

FourInvariants(d) ==
    /\ RotationPerVertex(d)
    /\ RotationEntriesOwned(d)
    /\ BackReferences(d)
    /\ EndsInRotation(d)

\* C12: from_json_dict returns a graph only when the snapshot satisfies the
\* four rules; for a snapshot violating any of them the call fails, returns
\* no graph, and leaves the snapshot as it was exported.
C12_ImportRejectsMalformed ==
    Imported =>
        /\ imported.outcome = "ok" => FourInvariants(SnapshotData)
        /\ ~FourInvariants(SnapshotData) =>
               /\ imported.outcome = "ValueError"
               /\ imported.g = NoImport.g
        /\ snap = to_json_dict(pre)
        /\ rotation = pre.rotation

\* a rejected snapshot whose only defect is rule 4
C12_Witness ==
    /\ imported.outcome = "ValueError"
    /\ RotationPerVertex(SnapshotData)
    /\ RotationEntriesOwned(SnapshotData)
    /\ BackReferences(SnapshotData)
    /\ ~EndsInRotation(SnapshotData)
-----------------------------------------------------------------------------
(* Construction claims, checked under SpecRaster.                          *)

Built == build.pc = "done"
Ended == build.pc \in {"done", "failed"}
\* the grid is not h rows of w pixels each
DimensionsDisagree ==
    \/ Len(build.comp) # build.image_size[2]
    \/ \E y \in 1..Len(build.comp) : Len(build.comp[y]) # build.image_size[1]

SizesAgree == ~DimensionsDisagree
FaceIds == 0..(Len(build.faces) - 1)

\* the pixels of face f
Cells(comp, f) ==
    {p \in (0..(Len(comp[1]) - 1)) \X (0..(Len(comp) - 1)) :
        p[1] < Len(comp[p[2] + 1]) /\ Pixel(comp, p[1], p[2]) = f}

\* p and q are side neighbours, or corner neighbours too when diag is set
Near(p, q, diag) ==
    /\ p # q
    /\ p[1] - q[1] \in {-1, 0, 1}
    /\ p[2] - q[2] \in {-1, 0, 1}
    /\ diag \/ p[1] = q[1] \/ p[2] = q[2]

RECURSIVE Flood(_, _, _)
Flood(found, pool, diag) ==
    LET more == {q \in pool \ found : \E p \in found : Near(p, q, diag)}
    IN  IF more = {} THEN found ELSE Flood(found \cup more, pool, diag)

ConnectedSet(S, diag) == S = {} \/ Flood({CHOOSE p \in S : TRUE}, S, diag) = S

FourConnected(comp, f) == Cells(comp, f) # {} /\ ConnectedSet(Cells(comp, f), FALSE)

\* everything that is not f, with a ring of outside pixels, is 8-connected
HoleFree(comp, f) ==
    ConnectedSet(((-1..Len(comp[1])) \X (-1..Len(comp))) \ Cells(comp, f), TRUE)

AllFacesSimple ==
    \A f \in FaceIds : FourConnected(build.comp, f) /\ HoleFree(build.comp, f)

\* the pixel sides of f that face another label or the image border
BoundarySides(comp, f) ==
    Cardinality({s \in Cells(comp, f) \X {<<1, 0>>, <<-1, 0>>, <<0, 1>>, <<0, -1>>} :
                    <<s[1][1] + s[2][1], s[1][2] + s[2][2]>> \notin Cells(comp, f)})

\* f has two pixels meeting only in a corner at some grid point
HasPinch(comp, f) ==
    \E x \in 1..(Len(comp[1]) - 1), y \in 1..(Len(comp) - 1) :
        LET nw == Pixel(comp, x - 1, y - 1) = f
            ne == Pixel(comp, x, y - 1) = f
            sw == Pixel(comp, x - 1, y) = f
            se == Pixel(comp, x, y) = f
        IN  (nw /\ se /\ ~ne /\ ~sw) \/ (ne /\ sw /\ ~nw /\ ~se)

VerticesOfKind(kind) == {k \in 0..(Len(vertices) - 1) : At(vertices, k).kind = kind}
GreenOn(side) == {k \in VerticesOfKind("green") : At(vertices, k).side = side}
EdgesJoining(a, b) ==
    {k \in 0..(Len(edges) - 1) : {At(edges, k).u, At(edges, k).v} = {a, b}}

TwoRows == << <<0, 0>>, <<1, 1>> >>

TwoRowsBuilt ==
    /\ Ended
    /\ build.comp = TwoRows
    /\ build.image_size = <<2, 2>>
    /\ build.green_sides

\* C14 as stated: the 2x2 grid [[0,0],[1,1]] with green ports yields
\* exactly 2 face vertices, exactly 1 boundary edge joining face 0 and
\* face 1, exactly 4 green vertices, and validate() passes.
C14_TwoRowsAsStated ==
    TwoRowsBuilt =>
        /\ call.outcome = "ok"
        /\ Cardinality(VerticesOfKind("face")) = 2
        /\ Cardinality(EdgesJoining(0, 1)) = 1
        /\ \A k \in EdgesJoining(0, 1) : At(edges, k).kind = "boundary"
        /\ Cardinality(VerticesOfKind("green")) = 4
        /\ validate(Graph)

\* C14 amended: the same, with 6 green vertices: one on top, one on the
\* bottom, two on the left and two on the right.
C14_TwoRows ==
    TwoRowsBuilt =>
        /\ call.outcome = "ok"
        /\ Cardinality(VerticesOfKind("face")) = 2
        /\ Cardinality(EdgesJoining(0, 1)) = 1
        /\ \A k \in EdgesJoining(0, 1) : At(edges, k).kind = "boundary"
        /\ Cardinality(VerticesOfKind("green")) = 6
        /\ Cardinality(GreenOn("top")) = 1
        /\ Cardinality(GreenOn("bottom")) = 1
        /\ Cardinality(GreenOn("left")) = 2
        /\ Cardinality(GreenOn("right")) = 2
        /\ validate(Graph)

C14_Witness == TwoRowsBuilt /\ Built

\* C15: with green ports, when every face is a 4-connected pixel set that
\* encloses no other pixels, the trace of each face produces exactly one
\* cycle whose length before collapsing is the face's micro-edge count,
\* and construction returns a graph.
C15_OneCyclePerFace ==
    (build.green_sides /\ SizesAgree /\ AllFacesSimple) =>
        /\ build.pc # "failed"
        /\ \A k \in 1..Len(build.walks) :
               /\ Len(build.walks[k]) = 1
               /\ Len(build.walks[k][1]) = BoundarySides(build.comp, k - 1)
        /\ Built => (call.outcome = "ok" /\ Len(vertices) >= Len(build.faces))

\* a graph was returned for a grid of simple faces one of which touches
\* itself at a pinch point
C15_Witness ==
    /\ Built
    /\ build.green_sides
    /\ AllFacesSimple
    /\ Len(build.walks) = Len(build.faces)
    /\ \E f \in FaceIds : HasPinch(build.comp, f)

\* C16: if some face has a hole, construction fails and returns no graph.
C16_HoleRejected ==
    (Ended /\ SizesAgree
       /\ \E f \in FaceIds : FourConnected(build.comp, f) /\ ~HoleFree(build.comp, f)) =>
        /\ call.outcome # "ok"
        /\ Graph = NoGraph

\* the run in which every component search starts at the smallest
\* unvisited micro-edge
RECURSIVE RunFrom(_)
RunFrom(b) ==
    CASE b.pc = "scan"       -> RunFrom(scan(b))
      [] b.pc = "components" ->
             RunFrom(discover(b, CHOOSE m \in b.unvisited : \A o \in b.unvisited : m <= o))
      [] b.pc = "green"      -> RunFrom(green_ports(b))
      [] b.pc = "trace"      -> RunFrom(trace_face(b))
      [] b.pc = "finish"     -> RunFrom(finish(b))
      [] OTHER               -> b

SmallestFirst ==
    RunFrom(Locals(build.faces, build.comp, build.image_size, build.green_sides))

\* an edge named by the micro-edges it stands for, which do not depend on
\* the order of discovery
EdgeName(b, eid) ==
    {mid \in DOMAIN b.micro_to_dual_edge : b.micro_to_dual_edge[mid] = eid}

Shape(b) ==
    [vertices |-> b.vertices,
     edges    |-> {<<EdgeName(b, b.edges[k].id), b.edges[k].u, b.edges[k].v, b.edges[k].kind>> :
                      k \in 1..Len(b.edges)},
     rotation |-> [k \in 1..Len(b.rotation) |->
                      [m \in 1..Len(b.rotation[k]) |->
                          EdgeName(b, At(b.halfedges, b.rotation[k][m]).edge)]]]

\* C17: whatever micro-edge each component search starts from, the run
\* ends as the smallest-first run does, and a returned graph has the same
\* vertices, the same edges between each vertex pair and the same rotation
\* order at every vertex, up to the naming of parallel edges.
C17_Deterministic ==
    Ended =>
        /\ build.outcome = SmallestFirst.outcome
        /\ Built => Shape(build) = Shape(SmallestFirst)

\* a returned graph that differs from the smallest-first one
C17_Witness ==
    /\ Built
    /\ build.micro_to_dual_edge # SmallestFirst.micro_to_dual_edge
    /\ rotation # SmallestFirst.rotation

\* C18: with green ports disabled, construction on a grid of two or more
\* hole-free 4-connected faces returns a graph on which validate()
\* succeeds.
C18_WithoutGreenPorts ==
    (Ended /\ ~build.green_sides /\ SizesAgree /\ AllFacesSimple
       /\ Len(build.faces) >= 2) =>
        /\ call.outcome = "ok"
        /\ validate(Graph)

\* C19: in every graph returned by construction each half-edge id occurs
\* exactly once in the rotation list of its origin and in no other list.
C19_RotationWithoutRepetition ==
    Built =>
        \A h \in 0..(Len(halfedges) - 1) :
            /\ Cardinality(Places(Graph, h)) = 1
            /\ \A p \in Places(Graph, h) : p[1] - 1 = At(halfedges, h).origin

\* C24: construction is rejected, and no graph returned, whenever the number
\* of rows differs from the height or any row has a length different from
\* the width.
C24_DimensionsChecked ==
    (Ended /\ DimensionsDisagree) =>
        /\ call.outcome # "ok"
        /\ Graph = NoGraph

\* the unit segments of the grid with a pixel of a on one side and a pixel
\* of b on the other, each as the set of its two end points
Separating(comp, w, h, a, b) ==
    {{<<p[1] + 1, p[2]>>, <<p[1] + 1, p[2] + 1>>} :
        p \in {q \in (0..(w - 2)) \X (0..(h - 1)) :
                  {Pixel(comp, q[1], q[2]), Pixel(comp, q[1] + 1, q[2])} = {a, b}}}
    \cup
    {{<<p[1], p[2] + 1>>, <<p[1] + 1, p[2] + 1>>} :
        p \in {q \in (0..(w - 1)) \X (0..(h - 2)) :
                  {Pixel(comp, q[1], q[2]), Pixel(comp, q[1], q[2] + 1)} = {a, b}}}

\* the segments of pool joined to found through shared end points
RECURSIVE Joined(_, _)
Joined(found, pool) ==
    LET more == {t \in pool \ found : \E s \in found : s \cap t # {}}
    IN  IF more = {} THEN found ELSE Joined(found \cup more, pool)

\* the maximal connected stretches of a set of segments
Stretches(S) == {Joined({s}, S) : s \in S}

SeparatingHere(a, b) ==
    Separating(build.comp, build.image_size[1], build.image_size[2], a, b)

\* the micro-edges between two faces, and the segment of a micro-edge
Inner == {mid \in 0..(Len(build.microedges) - 1) :
             At(build.microedges, mid).left_face # Outside
                 /\ At(build.microedges, mid).right_face # Outside}
SegmentOf(mid) == {At(build.microedges, mid).p0, At(build.microedges, mid).p1}
FacesOf(mid) == {At(build.microedges, mid).left_face, At(build.microedges, mid).right_face}

\* C21: for each pair of distinct faces construction creates exactly one
\* boundary edge per maximal connected stretch of the segments separating
\* them; micro-edges of one stretch are on one edge, micro-edges of
\* different stretches on different edges.
C21_OneEdgePerStretch ==
    Built =>
        /\ \A a \in FaceIds, b \in FaceIds :
               a < b =>
                   /\ Cardinality(EdgesJoining(a, b)) = Cardinality(Stretches(SeparatingHere(a, b)))
                   /\ \A k \in EdgesJoining(a, b) : At(edges, k).kind = "boundary"
        /\ \A m1 \in Inner, m2 \in Inner :
               LET same == build.micro_to_dual_edge[m1] = build.micro_to_dual_edge[m2]
               IN  /\ (FacesOf(m1) = FacesOf(m2) /\ SegmentOf(m1) \cap SegmentOf(m2) # {}) => same
                   /\ same =>
                          /\ FacesOf(m1) = FacesOf(m2)
                          /\ \E a \in FaceIds, b \in FaceIds :
                                 /\ FacesOf(m1) = {a, b}
                                 /\ SegmentOf(m2) \in Joined({SegmentOf(m1)}, SeparatingHere(a, b))
        /\ \A m \in Inner :
               FacesOf(m) = {At(edges, build.micro_to_dual_edge[m]).u,
                             At(edges, build.micro_to_dual_edge[m]).v}

\* a returned graph with two parallel edges between two faces, and an edge
\* that stands for more than one micro-edge
C21_Witness ==
    /\ Built
    /\ \E a \in FaceIds, b \in FaceIds :
           a < b /\ Cardinality(Stretches(SeparatingHere(a, b))) >= 2
    /\ \E a \in FaceIds, b \in FaceIds :
           a < b /\ \E t \in Stretches(SeparatingHere(a, b)) : Cardinality(t) >= 2

Sides == {"top", "bottom", "left", "right"}

\* the border pixels of a side of the grid being built
BorderOf(side) ==
    SidePixels(build.comp, side, build.image_size[1], build.image_size[2])

\* the positions of a sequence at which a maximal constant run begins
RunStarts(seq) == {k \in 1..Len(seq) : k = 1 \/ seq[k] # seq[k - 1]}

\* the face of the n-th run of a sequence
FaceOfRun(seq, n) ==
    seq[CHOOSE k \in RunStarts(seq) : Cardinality({c \in RunStarts(seq) : c <= k}) = n]

EdgesAt(w) == {k \in 0..(Len(edges) - 1) : w \in {At(edges, k).u, At(edges, k).v}}

\* C22: with green ports on a non-empty grid, each side has as many green
\* vertices as its border pixel sequence has maximal constant runs; each
\* green vertex has kind green, no colour, no parent, exactly one edge, a
\* boundary edge to the face of its run, and a rotation holding just that
\* edge's half-edge.
C22_GreenPerRun ==
    (Built /\ build.green_sides /\ build.image_size[1] > 0 /\ build.image_size[2] > 0) =>
        /\ \A side \in Sides :
               Cardinality(GreenOn(side)) = Cardinality(RunStarts(BorderOf(side)))
        /\ \A gid \in VerticesOfKind("green") :
               LET v    == At(vertices, gid)
                   nth  == Cardinality({o \in GreenOn(v.side) : o <= gid})
               IN  /\ v.side \in Sides
                   /\ v.color = NoneVal
                   /\ v.parent = NoneVal
                   /\ Cardinality(EdgesAt(gid)) = 1
                   /\ \A k \in EdgesAt(gid) :
                          /\ At(edges, k).kind = "boundary"
                          /\ At(edges, k).u = FaceOfRun(BorderOf(v.side), nth)
                          /\ At(edges, k).v = gid
                          /\ At(rotation, gid) = << At(edges, k).he_v >>

\* a returned graph with two green vertices on one side and one on another
C22_Witness ==
    /\ Built
    /\ build.green_sides
    /\ \E side \in Sides : Cardinality(GreenOn(side)) >= 2
    /\ \E side \in Sides : Cardinality(GreenOn(side)) = 1

\* how the walk of face fid ends when started at each of its directed
\* micro-edges
WalkEnds(fid) ==
    LET directed == DirectedFrom(build.microedges, fid, 0)
    IN  {Walk(directed, build.micro_to_dual_edge,
              <<directed[k].u, directed[k].v>>, <<directed[k].u, directed[k].v>>,
              <<>>, {}).status : k \in 1..Len(directed)}

\* C23: the boundary walk always ends: from every starting directed
\* micro-edge of every face it returns to the start or raises an error; it
\* never enters a loop that does not contain the start.
C23_WalkEnds ==
    /\ build.outcome # "hang"
    /\ build.pc = "trace" =>
           \A fid \in FaceIds : WalkEnds(fid) \subseteq {"ok", "RuntimeError"}

\* the tracing of a grid in which a face touches itself at a pinch point,
\* some walk comes back to its start and some walk raises
C23_Witness ==
    /\ build.pc = "trace"
    /\ \E fid \in FaceIds : HasPinch(build.comp, fid) /\ WalkEnds(fid) # {}
    /\ \E fid \in FaceIds : "ok" \in WalkEnds(fid)
    /\ \E fid \in FaceIds : "RuntimeError" \in WalkEnds(fid)

\* the number of calls that have returned since construction
Depth == Len(edges) - Len(build.edges)

\* C25: in every graph returned by construction and every state reached from
\* it by split_arc and vertex_split calls, each edge owns exactly two
\* distinct half-edges: there are twice as many half-edges as edges, he_u
\* differs from he_v, and every half-edge is the he_u or he_v of exactly one
\* edge, the one named in its edge field.
C25_TwoHalfEdgesPerEdge ==
    Built =>
        /\ Len(halfedges) = 2 * Len(edges)
        /\ \A k \in 0..(Len(edges) - 1) : At(edges, k).he_u # At(edges, k).he_v
        /\ \A he \in 0..(Len(halfedges) - 1) :
               {k \in 0..(Len(edges) - 1) :
                    At(edges, k).he_u = he \/ At(edges, k).he_v = he}
                   = {At(halfedges, he).edge}

\* a vertex_split has returned after a split_arc, on a constructed graph
C25_Witness ==
    /\ Built
    /\ Depth = 2
    /\ call.op = "vertex_split"
    /\ call.outcome = "ok"
    /\ Cardinality({k \in 1..Len(edges) : edges[k].kind = "internal"}) = 1

\* C26: in every state reached from a constructed graph by vertex_split and
\* split_arc calls, the parent of every face vertex is the id of an original
\* face of the raster: an un-split face is its own parent, a vertex created
\* by a split carries the parent of the vertex it was split from, and every
\* face vertex has the colour of its parent face.
C26_ParentIsOriginalFace ==
    Built =>
        /\ \A k \in 0..(Len(vertices) - 1) :
               At(vertices, k).kind = "face" =>
                   /\ At(vertices, k).parent \in FaceIds
                   /\ k \in FaceIds => At(vertices, k).parent = k
                   /\ At(vertices, k).color
                          = At(build.faces, At(vertices, k).parent).color
        /\ (call.op = "vertex_split" /\ call.outcome = "ok") =>
               Last(vertices).parent = At(pre.vertices, call.args[1]).parent

\* a vertex created by a split has itself been split
C26_Witness ==
    /\ Built
    /\ Depth = 2
    /\ call.op = "vertex_split"
    /\ call.outcome = "ok"
    /\ call.args[1] = Len(build.vertices)
    /\ Len(vertices) = Len(build.vertices) + 2

\* C28: no edge is a self-loop: in every graph returned by construction and
\* every state reached from it by split_arc and vertex_split calls, each
\* edge has u different from v, and every internal edge joins two face
\* vertices that have the same parent.
C28_NoSelfLoops ==
    Built =>
        \A k \in 0..(Len(edges) - 1) :
            LET e == At(edges, k)
            IN  /\ e.u # e.v
                /\ e.kind = "internal" =>
                       /\ At(vertices, e.u).kind = "face"
                       /\ At(vertices, e.v).kind = "face"
                       /\ At(vertices, e.u).parent = At(vertices, e.v).parent

\* an internal edge has been given a parallel edge, or has had one of its
\* ends moved to a new vertex
C28_Witness ==
    /\ Built
    /\ Depth = 2
    /\ call.outcome = "ok"
    /\ \E k \in 0..(Len(pre.edges) - 1) :
           /\ At(pre.edges, k).kind = "internal"
           /\ \/ call.op = "split_arc" /\ call.args[1] = k
              \/ call.op = "vertex_split" /\ At(edges, k) # At(pre.edges, k)

\* some record of the list does not carry its position as its id
OutOfPlace(items) == \E k \in 0..(Len(items) - 1) : At(items, k).id # k

Misnumbered(d) ==
    OutOfPlace(d.vertices) \/ OutOfPlace(d.edges) \/ OutOfPlace(d.halfedges)

\* C27: import rejects a snapshot in which the id of a vertex, edge or
\* half-edge differs from its position in its collection; such a snapshot
\* never becomes a graph in which split_arc(k) would work on a record whose
\* id is not k.
C27_ImportChecksIds ==
    Imported =>
        /\ Misnumbered(SnapshotData) => imported.outcome = "ValueError"
        /\ imported.outcome = "ok" => ~OutOfPlace(imported.g.edges)

\* C29: a snapshot produced by to_json_dict is independent of the graph it
\* was exported from: split_arc and vertex_split calls made on the graph
\* after the export do not change the snapshot's rotation, vertices, edges
\* or half-edges.
C29_SnapshotIndependent ==
    [][snap.exported => SnapshotData' = SnapshotData]_vars

\* the op string a log record stands for
OpStringOf(rec) ==
    IF rec.op = "split_arc" THEN <<"split_arc", rec.edge>>
    ELSE <<"vertex_split", rec.vertex, rec.i, rec.j>>

\* the ids a log record says its op produced
IdsOf(rec) ==
    IF rec.op = "split_arc" THEN <<rec.new_edge>>
    ELSE <<rec.new_vertex, rec.new_edge>>

\* the ops of a list of log records are made one after the other on g
RECURSIVE Replay(_, _)
Replay(g, recs) ==
    IF recs = <<>> THEN [g |-> g, ok |-> TRUE, ids |-> <<>>]
    ELSE LET r == IF Head(recs).op = "split_arc"
                  THEN split_arc(g, Head(recs).edge)
                  ELSE vertex_split(g, Head(recs).vertex, Head(recs).i, Head(recs).j)
         IN  IF r.outcome # "ok" THEN [g |-> r.g, ok |-> FALSE, ids |-> <<>>]
             ELSE LET rest == Replay(r.g, Tail(recs))
                  IN  [g |-> rest.g, ok |-> rest.ok, ids |-> <<r.ret>> \o rest.ids]

\* C30: the driver applies the ops in the order of the op list and appends
\* one log record per applied op, in that order, with the op's arguments
\* and the ids it produced; if an op or the final validation fails, nothing
\* is written; replaying the recorded ops on the original snapshot gives
\* the same final graph and the same produced ids.
C30_DriverLogsInOrder ==
    driver.pc \in {"ops", "done", "failed"} =>
        /\ Len(driver.applied) = driver.k
        /\ driver.k <= Len(driver.op_strs)
        /\ \A n \in 1..Len(driver.applied) :
               OpStringOf(driver.applied[n]) = driver.op_strs[n]
        /\ driver.pc = "failed" => ~driver.written /\ snap = NoSnapshot
        /\ driver.pc = "ops" => ~driver.written /\ snap = NoSnapshot
        /\ imported.outcome = "ok" =>
               LET r == Replay(from_json_dict(driver.graph_dict).g, driver.applied)
               IN  /\ r.ok
                   /\ r.ids = [n \in 1..Len(driver.applied) |-> IdsOf(driver.applied[n])]
                   /\ driver.pc \in {"ops", "done"} => r.g = Graph
        /\ driver.pc = "done" =>
               /\ Len(driver.applied) = Len(driver.op_strs)
               /\ driver.no_validate \/ validate(Graph)
               /\ snap = to_json_dict(Graph)
               /\ driver.applied # <<>> =>
                      /\ driver.out_ops.kind = "list"
                      /\ SubSeq(driver.out_ops.list,
                                Len(driver.out_ops.list) - Len(driver.applied) + 1,
                                Len(driver.out_ops.list)) = driver.applied

\* the output has been written after a vertex_split and then a split_arc of
\* the edge it made, appended to the log of an earlier run
C30_Witness ==
    /\ driver.pc = "done"
    /\ Len(driver.applied) = 2
    /\ driver.applied[1].op = "vertex_split"
    /\ driver.applied[2].op = "split_arc"
    /\ driver.applied[2].edge = driver.applied[1].new_edge
    /\ Len(driver.out_ops.list) = 3
=============================================================================
